---- MODULE Spec2Model ----
(***************************************************************************)
(* Model of the A2A invoke endpoint of the domain checker agent:           *)
(*   src/src/mastra/agents/server.ts        (request handler, delivery)    *)
(*   src/src/mastra/agents/domain-agent.ts  (handleDomainMessage, lookup)  *)
(*   agents/domain-agent.js                 (the earlier handler, which    *)
(*                                           extracts the domain and calls *)
(*                                           the lookup itself)            *)
(*                                                                         *)
(*   src/src/mastra/workflows/handleDomainMessage.ts  (the handler that    *)
(*                                           reads the agent's stream)     *)
(*                                                                         *)
(* Spec and LiveSpec run the invoke handler around the agent, TargetSpec   *)
(* the same handler on requests that name push targets in several places;  *)
(* LookupSpec runs the earlier handler, from the message to the sync       *)
(* response; ToolSpec runs a call of the lookup tool; StreamSpec runs the   *)
(* streaming handler, event by event.                                      *)
(*                                                                         *)
(* JavaScript values are tagged records, so that values of different JS    *)
(* types can be compared:  t is the tag ("undefined", "null", "string",    *)
(* "jsonstring", "number", "boolean", "object", "array").                  *)
(***************************************************************************)
EXTENDS Integers, Sequences, FiniteSets, TLC

\* ------------------------------------------------------------------------
\* JavaScript values
\* ------------------------------------------------------------------------
Undef == [t |-> "undefined"]

Null == [t |-> "null"]

Str(s) == [t |-> "string", s |-> s]

Num(n) == [t |-> "number", n |-> n]

Bool(b) == [t |-> "boolean", b |-> b]

\* f is a record: the object's own properties
Obj(f) == [t |-> "object", f |-> f]

\* a is a sequence of values
Arr(a) == [t |-> "array", a |-> a]

\* JS typeof
TypeOf(v) ==
  CASE v.t = "undefined" -> "undefined"
    [] v.t = "null" -> "object"
    [] v.t = "string" -> "string"
    [] v.t = "jsonstring" -> "string"
    [] v.t = "number" -> "number"
    [] v.t = "boolean" -> "boolean"
    [] v.t = "object" -> "object"
    [] v.t = "array" -> "object"

\* JS truthiness (ToBoolean)
Truthy(v) ==
  CASE v.t = "undefined" -> FALSE
    [] v.t = "null" -> FALSE
    [] v.t = "string" -> v.s # ""
    [] v.t = "jsonstring" -> TRUE
    [] v.t = "number" -> v.n # 0
    [] v.t = "boolean" -> v.b
    [] v.t = "object" -> TRUE
    [] v.t = "array" -> TRUE

\* the JS operator  k in v  (v an object)
Has(v, k) == v.t = "object" /\ k \in DOMAIN v.f

\* property read v?.k : undefined on null/undefined and on a missing property
Get(v, k) == IF Has(v, k) THEN v.f[k] ELSE Undef

\* a ?? b
Coalesce(a, b) == IF a.t \in {"undefined", "null"} THEN b ELSE a

\* JSON.stringify(v, null, 2): the JSON text of v, a string that is never
\* empty; undefined has no JSON text and stringifies to undefined
JSONstringify(v) == IF v.t = "undefined" THEN Undef ELSE [t |-> "jsonstring", of |-> v]

\* String(v)
String(v) ==
  CASE v.t = "undefined" -> Str("undefined")
    [] v.t = "null" -> Str("null")
    [] v.t = "string" -> v
    [] v.t = "jsonstring" -> v
    [] v.t = "number" -> [t |-> "jsonstring", of |-> v]
    [] v.t = "boolean" -> Str(IF v.b THEN "true" ELSE "false")
    [] v.t = "object" -> Str("[object Object]")
    [] v.t = "array" -> [t |-> "jsonstring", of |-> v]

\* ------------------------------------------------------------------------
\* Strings whose characters the program inspects: a sequence of characters
\* ------------------------------------------------------------------------

\* the string made of the characters of c
RECURSIVE Join(_)
Join(c) == IF c = <<>> THEN "" ELSE Head(c) \o Join(Tail(c))

\* a string value together with its characters
Txt(c) == [t |-> "string", s |-> Join(c), c |-> c]

LowerCaseLetters ==
  <<"a", "b", "c", "d", "e", "f", "g", "h", "i", "j", "k", "l", "m",
    "n", "o", "p", "q", "r", "s", "t", "u", "v", "w", "x", "y", "z">>

UpperCaseLetters ==
  <<"A", "B", "C", "D", "E", "F", "G", "H", "I", "J", "K", "L", "M",
    "N", "O", "P", "Q", "R", "S", "T", "U", "V", "W", "X", "Y", "Z">>

DigitChars == {"0", "1", "2", "3", "4", "5", "6", "7", "8", "9"}

isUpper(ch) == \E i \in DOMAIN UpperCaseLetters : UpperCaseLetters[i] = ch

isLower(ch) == \E i \in DOMAIN LowerCaseLetters : LowerCaseLetters[i] = ch

toLowerCaseChar(ch) ==
  IF isUpper(ch)
  THEN LowerCaseLetters[CHOOSE i \in DOMAIN UpperCaseLetters : UpperCaseLetters[i] = ch]
  ELSE ch

\* String.prototype.toLowerCase
toLowerCase(c) == [i \in DOMAIN c |-> toLowerCaseChar(c[i])]

\* the regular expression class \s
isSpace(ch) == ch \in {" ", "\t", "\n", "\r"}

\* the regular expression class \w, on which \b rests
isWordChar(ch) == isLower(ch) \/ isUpper(ch) \/ ch \in DigitChars \/ ch = "_"

RECURSIVE trimStart(_)
trimStart(c) == IF c # <<>> /\ isSpace(Head(c)) THEN trimStart(Tail(c)) ELSE c

RECURSIVE trimEnd(_)
trimEnd(c) ==
  IF c # <<>> /\ isSpace(c[Len(c)]) THEN trimEnd(SubSeq(c, 1, Len(c) - 1)) ELSE c

\* String.prototype.trim
trim(c) == trimEnd(trimStart(c))

\* the characters of w stand in c from position i on
startsAt(c, w, i) == i + Len(w) - 1 <= Len(c) /\ \A k \in DOMAIN w : c[i + k - 1] = w[k]

\* the literal w occurs in c
includes(c, w) == \E i \in DOMAIN c : startsAt(c, w, i)

\* c.replace(/p/gi, "") for the literals p of pats, none a prefix of another:
\* every occurrence is dropped, left to right, and the result is not rescanned
RECURSIVE removeAll(_, _)
removeAll(c, pats) ==
  IF c = <<>> THEN <<>>
  ELSE IF \E p \in pats : startsAt(toLowerCase(c), p, 1)
    THEN LET p == CHOOSE q \in pats : startsAt(toLowerCase(c), q, 1)
         IN removeAll(SubSeq(c, Len(p) + 1, Len(c)), pats)
  ELSE <<Head(c)>> \o removeAll(Tail(c), pats)

\* ------------------------------------------------------------------------
\* domain-agent.ts
\* ------------------------------------------------------------------------

\* the outcome of a call: a returned value or a thrown one
Return(v) == [kind |-> "return", v |-> v]

Throw(e) == [kind |-> "throw", v |-> e]

Pending == [kind |-> "none", v |-> Undef]

looksLikeResultEnvelope(obj) ==
  IF ~Truthy(obj) \/ TypeOf(obj) # "object" THEN FALSE
  ELSE IF Get(obj, "jsonrpc") = Str("2.0") /\ (Has(obj, "result") \/ Has(obj, "error")) THEN TRUE
  ELSE IF /\ Truthy(Get(obj, "result"))
          /\ TypeOf(Get(obj, "result")) = "object"
          /\ \/ Truthy(Get(Get(obj, "result"), "output"))
             \/ Get(Get(obj, "result"), "ok") # Undef
       THEN TRUE
  ELSE IF /\ Truthy(Get(obj, "output"))
          /\ \/ Truthy(Get(Get(obj, "output"), "text"))
             \/ Truthy(Get(Get(obj, "output"), "artifacts"))
       THEN TRUE
  ELSE FALSE

TextArtifact(text) == Obj([type |-> Str("text/plain"), parts |-> Arr(<<Obj([text |-> text])>>)])

JsonArtifact(json) == Obj([type |-> Str("application/json"), parts |-> Arr(<<Obj([json |-> json])>>)])

\* { result: { ok: true, output } }
ResultOk(output) == Obj([result |-> Obj([ok |-> Bool(TRUE), output |-> output])])

\* the try block, after the agent returned agentResult
normalizeAgentResult(agentResult) ==
  IF looksLikeResultEnvelope(agentResult) THEN agentResult
  ELSE IF Truthy(agentResult) /\ TypeOf(agentResult) = "object" /\ Truthy(Get(agentResult, "output"))
    THEN ResultOk(Get(agentResult, "output"))
  ELSE IF /\ Truthy(agentResult) /\ TypeOf(agentResult) = "object"
          /\ (Truthy(Get(agentResult, "output_text")) \/ Truthy(Get(agentResult, "text")))
    THEN LET text == Coalesce(Get(agentResult, "output_text"), Get(agentResult, "text"))
         IN ResultOk(Obj([text |-> text, artifacts |-> Arr(<<TextArtifact(text)>>)]))
  ELSE IF Truthy(agentResult) /\ TypeOf(agentResult) = "object" /\ Truthy(Get(agentResult, "data"))
    THEN ResultOk(Obj([text |-> JSONstringify(Get(agentResult, "data")),
                       artifacts |-> Arr(<<JsonArtifact(Get(agentResult, "data"))>>)]))
  ELSE IF TypeOf(agentResult) = "string"
    THEN ResultOk(Obj([text |-> agentResult, artifacts |-> Arr(<<TextArtifact(agentResult)>>)]))
  ELSE ResultOk(Obj([text |-> JSONstringify(agentResult),
                     artifacts |-> Arr(<<JsonArtifact(agentResult)>>)]))

\* the catch block with message: String(err)
normalizeCaught_StringOfError(err) ==
  Obj([error |-> Obj([code |-> Num(-32000),
                      message |-> String(err),
                      data |-> Obj([where |-> Str("handleDomainMessage")])])])

\* the catch block: { error: { code: -32000, message, data: { where } } }
normalizeCaught(err) ==
  Obj([error |-> Obj([code |-> Num(-32000),
                      message |-> String(Coalesce(Get(err, "message"), err)),
                      data |-> Obj([where |-> Str("handleDomainMessage")])])])

\* content of the one message handed to the agent: String(userText ?? "").trim()
\* (texts of the model carry no surrounding blanks)
messageContent(userText) == String(Coalesce(userText, Str("")))

\* handleDomainMessage, from the outcome of domainAgent.generate on: the
\* whole body is inside try/catch, so the call itself always returns
handleDomainMessage(agentOutcome) ==
  IF agentOutcome.kind = "throw"
  THEN Return(normalizeCaught(agentOutcome.v))
  ELSE Return(normalizeAgentResult(agentOutcome.v))

\* ------------------------------------------------------------------------
\* whoisTool: the lookup client (domain-agent.ts, and its earlier version
\* agents/domain-agent.js)
\* ------------------------------------------------------------------------

\* a || b
Or(a, b) == IF Truthy(a) THEN a ELSE b

\* fetch to the WHOIS provider rejects
NetworkError(message) == [kind |-> "neterr", message |-> message]

\* fetch resolves: resp.ok and the response body
WhoisResponse(ok, responseBody) == [kind |-> "response", ok |-> ok, body |-> responseBody]

\* JSON text of a boolean, a string or null
jsonValueText(v) ==
  CASE v.t = "boolean" -> IF v.b THEN <<"t", "r", "u", "e">> ELSE <<"f", "a", "l", "s", "e">>
    [] v.t = "string" -> <<"\"">> \o v.c \o <<"\"">>
    [] v.t = "null" -> <<"n", "u", "l", "l">>

\* JSON text of the members of an object; fields is a non-empty sequence of
\* <<key, value>>, key a sequence of characters
RECURSIVE jsonMembersText(_)
jsonMembersText(fields) ==
  LET member == <<"\"">> \o Head(fields)[1] \o <<"\"", ":">> \o jsonValueText(Head(fields)[2])
  IN IF Len(fields) = 1 THEN member ELSE member \o <<",">> \o jsonMembersText(Tail(fields))

\* the value JSON.parse yields for a member: strings lose their character view
parsedValue(v) == IF v.t = "string" THEN Str(v.s) ELSE v

\* a response body that is the JSON text of an object: raw is the text as
\* resp.text() yields it and json what JSON.parse(raw) returns
JsonBody(fields) ==
  [raw |-> <<"{">> \o jsonMembersText(fields) \o <<"}">>,
   valid |-> TRUE,
   json |-> Obj([k \in {Join(fields[i][1]) : i \in DOMAIN fields} |->
                   parsedValue(fields[CHOOSE i \in DOMAIN fields : Join(fields[i][1]) = k][2])])]

\* a response body that is no JSON text: JSON.parse(raw) throws
TextBody(c) == [raw |-> c, valid |-> FALSE, json |-> Null]

\* /registered/ tested on the text as it is, letter case included
testRegistered_CaseSensitive(rawText) ==
  includes(rawText, <<"r", "e", "g", "i", "s", "t", "e", "r", "e", "d">>)

\* /registered/i.test(rawText)
testRegistered(rawText) ==
  includes(toLowerCase(rawText), <<"r", "e", "g", "i", "s", "t", "e", "r", "e", "d">>)

\* json = rawText ? JSON.parse(rawText) : null, null when the parse throws
parsedJson(responseBody) ==
  IF responseBody.raw # <<>> /\ responseBody.valid THEN responseBody.json ELSE Null

\* const registered = (json && (flags)) || (typeof rawText === "string" && /registered/i.test(rawText))
registeredOf(responseBody) ==
  LET json == parsedJson(responseBody)
  IN \/ /\ Truthy(json)
        /\ \/ Get(json, "registered") = Bool(TRUE)
           \/ Get(json, "is_registered") = Bool(TRUE)
           \/ Get(json, "domainStatus") = Str("registered")
     \/ testRegistered(responseBody.raw)

\* the human text of a lookup
humanTextOf(domain, registered, expires, registrar) ==
  Str(IF registered
      THEN "Domain " \o Join(domain) \o " appears to be registered."
             \o (IF Truthy(expires) THEN " Expires: " \o String(expires).s \o "." ELSE "")
             \o (IF Truthy(registrar) THEN " Registrar: " \o String(registrar).s \o "." ELSE "")
      ELSE "Domain " \o Join(domain) \o " does not appear to be registered.")

\* the try/catch of whoisTool.execute, by the outcome of fetch; domain is a
\* sequence of characters
whoisLookup(domain, fetchOutcome) ==
  IF fetchOutcome.kind = "neterr"
  THEN Obj([status |-> Str("error"),
            error |-> Obj([message |-> Str(fetchOutcome.message), code |-> Num(-32001)]),
            output |-> Obj([text |-> Str("Error checking domain " \o Join(domain) \o ": "
                                           \o fetchOutcome.message)])])
  ELSE LET json == parsedJson(fetchOutcome.body)
           registered == registeredOf(fetchOutcome.body)
           expires == Or(Get(json, "expires"), Or(Get(json, "expiryDate"),
                         Or(Get(json, "expiration_date"), Null)))
           registrar == Or(Get(json, "registrar"), Null)
           structured == Obj([status |-> Str(IF fetchOutcome.ok THEN "ok" ELSE "error"),
                              domain |-> Str(Join(domain)),
                              registered |-> Bool(registered),
                              expires |-> expires,
                              registrar |-> registrar,
                              raw |-> Coalesce(json, Str(Join(fetchOutcome.body.raw)))])
           humanText == humanTextOf(domain, registered, expires, registrar)
           output == Obj([text |-> humanText,
                          artifacts |-> Arr(<<JsonArtifact(structured), TextArtifact(humanText)>>),
                          metadata |-> Obj([tool |-> Str("check_domain_status")])])
       IN Obj([status |-> Str("ok"), data |-> structured, output |-> output])

\* const domain = domainArg.trim(): the domain of the request URL and of the
\* lookup record
whoisTool_domain(domainArg) == trim(domainArg)

\* whoisTool.execute of domain-agent.ts, called with a domain string
whoisTool_execute(domainArg, fetchOutcome) ==
  IF domainArg = <<>>
  THEN Throw(Obj([message |-> Str("whoisTool: missing domain argument")]))
  ELSE Return(whoisLookup(whoisTool_domain(domainArg), fetchOutcome))

\* domainArg of whoisTool.execute(...args): a plain string, or the domain of
\* an object { domain }; "" stands for a domainArg left undefined. The
\* domains of the model are strings, which String() leaves as they are.
\* With more than one argument, a null first argument makes the read of
\* args[0].domain throw.
whoisTool_domainArg(args) ==
  LET first == IF args = <<>> THEN Undef ELSE args[1]
      ofObject == IF TypeOf(first) = "object" /\ Truthy(Get(first, "domain"))
                  THEN Get(first, "domain").c ELSE <<>>
  IN IF Len(args) > 1 /\ first.t = "null"
     THEN Throw(Obj([message |-> Str("Cannot read properties of null")]))
     ELSE IF Len(args) = 1 /\ TypeOf(first) = "string" THEN Return(first.c)
     ELSE IF Len(args) >= 1 THEN Return(ofObject)
     ELSE Return(<<>>)

\* checkDomainStatus of agents/domain-agent.js: its whoisTool.execute
\* lowercases the domain as well
checkDomainStatus(domainArg, fetchOutcome) ==
  IF domainArg = <<>>
  THEN Throw(Obj([message |-> Str("whoisTool: missing domain argument")]))
  ELSE Return(whoisLookup(toLowerCase(trim(domainArg)), fetchOutcome))

\* ------------------------------------------------------------------------
\* agents/domain-agent.js: the domain extractor and the handler that calls
\* the lookup itself
\* ------------------------------------------------------------------------

\* /<[^>]+>/ at the head of c (a "<"): the position of the closing ">", 0
\* when there is no match there
tagEnd(c) ==
  IF \E j \in 3 .. Len(c) : c[j] = ">" /\ \A k \in 2 .. j - 1 : c[k] # ">"
  THEN CHOOSE j \in 3 .. Len(c) : c[j] = ">" /\ \A k \in 2 .. j - 1 : c[k] # ">"
  ELSE 0

\* txt.replace(/<[^>]+>/g, " ")
RECURSIVE replaceTags(_)
replaceTags(c) ==
  IF c = <<>> THEN <<>>
  ELSE IF Head(c) = "<" /\ tagEnd(c) # 0
    THEN <<" ">> \o replaceTags(SubSeq(c, tagEnd(c) + 1, Len(c)))
  ELSE <<Head(c)>> \o replaceTags(Tail(c))

\* txt.replace(/\s+/g, " ")
RECURSIVE collapseSpaces(_)
collapseSpaces(c) ==
  IF c = <<>> THEN <<>>
  ELSE IF isSpace(Head(c)) THEN <<" ">> \o collapseSpaces(trimStart(c))
  ELSE <<Head(c)>> \o collapseSpaces(Tail(c))

\* stripHtml of a non-empty string (extractDomainFromText passes no other)
stripHtml(c) == trim(collapseSpaces(replaceTags(c)))

\* [a-z0-9-] under the i flag
isLabelChar(ch) == isLower(ch) \/ isUpper(ch) \/ ch \in DigitChars \/ ch = "-"

\* [a-z] under the i flag
isLetter(ch) == isLower(ch) \/ isUpper(ch)

\* \b before position i of c
wordBoundary(c, i) ==
  (i > 1 /\ i - 1 <= Len(c) /\ isWordChar(c[i - 1])) # (i >= 1 /\ i <= Len(c) /\ isWordChar(c[i]))

\* length of the run of label characters, of letters, from position i on
labelRun(c, i) == Cardinality({j \in i .. Len(c) : \A k \in i .. j : isLabelChar(c[k])})

letterRun(c, i) == Cardinality({j \in i .. Len(c) : \A k \in i .. j : isLetter(c[k])})

\* [a-z0-9-]{1,63}\. from position i: the position after the dot, 0 when
\* there is no match (no label character is a dot, so the run is the label)
labelEnd(c, i) ==
  LET n == labelRun(c, i)
  IN IF n >= 1 /\ n <= 63 /\ i + n <= Len(c) /\ c[i + n] = "." THEN i + n + 1 ELSE 0

\* [a-z]{2,63}\b from position j: the position after the last letter, 0
\* when there is no match (a shorter run of letters ends before a letter,
\* where \b does not hold)
tldEnd(c, j) ==
  LET n == letterRun(c, j)
  IN IF n >= 2 /\ n <= 63 /\ wordBoundary(c, j + n) THEN j + n ELSE 0

\* after one label: greedily one more label, else the top-level label
RECURSIVE matchRest(_, _)
matchRest(c, j) ==
  LET more == IF labelEnd(c, j) # 0 THEN matchRest(c, labelEnd(c, j)) ELSE 0
  IN IF more # 0 THEN more ELSE tldEnd(c, j)

\* /\b([a-z0-9-]{1,63}\.)+[a-z]{2,63}\b/i from position i: the position
\* after the match, 0 when there is none
matchAt(c, i) ==
  IF wordBoundary(c, i) /\ labelEnd(c, i) # 0 THEN matchRest(c, labelEnd(c, i)) ELSE 0

\* extractDomainFromText returning the cleaned text where nothing matches
extractDomainFromText_NoNull(text) ==
  IF ~Truthy(text) \/ TypeOf(text) # "string" THEN Null
  ELSE Txt(toLowerCase(removeAll(removeAll(stripHtml(text.c),
             {<<"h", "t", "t", "p", "s", ":", "/", "/">>, <<"h", "t", "t", "p", ":", "/", "/">>}),
             {<<"w", "w", "w", ".">>})))

\* extractDomainFromText returning the last match
extractDomainFromText_LastMatch(text) ==
  IF ~Truthy(text) \/ TypeOf(text) # "string" THEN Null
  ELSE LET clean == removeAll(removeAll(stripHtml(text.c),
                      {<<"h", "t", "t", "p", "s", ":", "/", "/">>, <<"h", "t", "t", "p", ":", "/", "/">>}),
                      {<<"w", "w", "w", ".">>})
           starts == {i \in DOMAIN clean : matchAt(clean, i) # 0}
       IN IF starts = {} THEN Null
          ELSE LET i == CHOOSE k \in starts : \A m \in starts : k >= m
               IN Txt(toLowerCase(SubSeq(clean, i, matchAt(clean, i) - 1)))

\* extractDomainFromText: the first match, lowercased, or null
extractDomainFromText(text) ==
  IF ~Truthy(text) \/ TypeOf(text) # "string" THEN Null
  ELSE LET clean == removeAll(removeAll(stripHtml(text.c),
                      {<<"h", "t", "t", "p", "s", ":", "/", "/">>, <<"h", "t", "t", "p", ":", "/", "/">>}),
                      {<<"w", "w", "w", ".">>})
           starts == {i \in DOMAIN clean : matchAt(clean, i) # 0}
       IN IF starts = {} THEN Null
          ELSE LET i == CHOOSE k \in starts : \A m \in starts : k <= m
               IN Txt(toLowerCase(SubSeq(clean, i, matchAt(clean, i) - 1)))

\* (part.kind === "text" || part.type === "text") && typeof part.text ===
\* "string" && part.text.trim(): the trimmed text, empty when the test fails
textOfPart(part) ==
  IF /\ (Get(part, "kind") = Str("text") \/ Get(part, "type") = Str("text"))
     /\ TypeOf(Get(part, "text")) = "string"
  THEN trim(Get(part, "text").c)
  ELSE <<>>

\* reading a property of null or undefined throws a TypeError
isNullish(v) == v.t \in {"null", "undefined"}

\* the inner loop over part.data: the first nested text, "" when there is
\* none; a null entry throws
RECURSIVE nestedUserText(_)
nestedUserText(data) ==
  IF data = <<>> THEN Return(<<>>)
  ELSE IF isNullish(Head(data)) THEN Throw(Obj([message |-> Str("Cannot read properties of null")]))
  ELSE IF textOfPart(Head(data)) # <<>> THEN Return(textOfPart(Head(data)))
  ELSE nestedUserText(Tail(data))

\* the loop over message.parts without its break: the last part that
\* yields a text wins
RECURSIVE partsUserText_Last(_)
partsUserText_Last(parts) ==
  IF parts = <<>> THEN Return(<<>>)
  ELSE LET rest == partsUserText_Last(Tail(parts)) IN
    IF rest.kind = "throw" \/ rest.v # <<>> THEN rest
    ELSE IF isNullish(Head(parts)) THEN Throw(Obj([message |-> Str("Cannot read properties of null")]))
    ELSE Return(textOfPart(Head(parts)))

\* the loop over message.parts: userText, "" when no part yields one
RECURSIVE partsUserText(_)
partsUserText(parts) ==
  IF parts = <<>> THEN Return(<<>>)
  ELSE LET part == Head(parts) IN
    IF isNullish(part) THEN Throw(Obj([message |-> Str("Cannot read properties of null")]))
    ELSE IF textOfPart(part) # <<>> THEN Return(textOfPart(part))
    ELSE IF Get(part, "kind") = Str("data") /\ Get(part, "data").t = "array"
      THEN LET nested == nestedUserText(Get(part, "data").a) IN
           IF nested.kind = "throw" \/ nested.v # <<>> THEN nested
           ELSE partsUserText(Tail(parts))
    ELSE partsUserText(Tail(parts))

ClarifyingText == Str("No domain found in the message. Please provide a domain like 'example.com'.")

\* handleDomainMessage up to the lookup: the reply where it returns without
\* one, or the domain it looks up. The whole body is inside try/catch.
beforeLookup(message) ==
  IF ~Truthy(message) \/ ~Truthy(Get(message, "parts")) \/ Get(message, "parts").t # "array"
  THEN [reply |-> normalizeCaught(Obj([message |-> Str("Invalid message object (missing parts)")])),
        domain |-> Null]
  ELSE LET scanned == partsUserText(Get(message, "parts").a) IN
    IF scanned.kind = "throw"
    THEN [reply |-> normalizeCaught(scanned.v), domain |-> Null]
    ELSE IF scanned.v = <<>>
    THEN [reply |-> Obj([error |-> Obj([code |-> Num(-32000),
                           message |-> Str("Could not extract user text from message parts"),
                           data |-> Obj([where |-> Str("handleDomainMessage")])])]),
          domain |-> Null]
    ELSE LET domain == extractDomainFromText(Txt(scanned.v)) IN
      IF ~Truthy(domain)
      THEN [reply |-> ResultOk(Obj([text |-> ClarifyingText,
                                    artifacts |-> Arr(<<TextArtifact(ClarifyingText)>>)])),
            domain |-> Null]
      ELSE [reply |-> Undef, domain |-> domain]

\* handleDomainMessage after the lookup, from the outcome of checkDomainStatus
afterLookup(toolOutcome) ==
  IF toolOutcome.kind = "throw" THEN normalizeCaught(toolOutcome.v)
  ELSE LET toolResult == toolOutcome.v IN
    IF Truthy(toolResult) /\ Truthy(Get(toolResult, "output"))
    THEN ResultOk(Get(toolResult, "output"))
    ELSE IF Truthy(toolResult) /\ Truthy(Get(toolResult, "data"))
    THEN ResultOk(Obj([text |-> JSONstringify(Get(toolResult, "data")),
                       artifacts |-> Arr(<<JsonArtifact(Get(toolResult, "data"))>>)]))
    ELSE ResultOk(Obj([text |-> JSONstringify(toolResult),
                       artifacts |-> Arr(<<JsonArtifact(toolResult)>>)]))

\* ------------------------------------------------------------------------
\* workflows/handleDomainMessage.ts: the handler that reads the agent's stream
\* ------------------------------------------------------------------------

\* what the catch block returns
FailureReply == Obj([reply |-> Str("Something went wrong with the domain checker.")])

\* a function value
Function == [t |-> "function"]

\* !stream || typeof stream.on !== "function"
isInvalidStream(stream) == ~Truthy(stream) \/ Get(stream, "on") # Function

\* msg?.delta?.text ?? msg?.content?.text ?? msg?.content ?? ""
chunkOf(msg) ==
  Coalesce(Get(Get(msg, "delta"), "text"),
           Coalesce(Get(Get(msg, "content"), "text"),
                    Coalesce(Get(msg, "content"), Txt(<<>>))))

\* if (chunk) finalText += chunk : a string is appended as it is, an object
\* as "[object Object]"
appendChunk(finalText, chunk) ==
  IF ~Truthy(chunk) THEN finalText
  ELSE IF chunk.t = "string" THEN finalText \o chunk.c
  ELSE finalText \o <<"[", "o", "b", "j", "e", "c", "t", " ", "O", "b", "j", "e", "c", "t", "]">>

\* { reply: finalText.trim() || "Domain lookup completed." }
streamReply(finalText) ==
  Obj([reply |-> IF trim(finalText) # <<>> THEN Txt(trim(finalText))
                 ELSE Str("Domain lookup completed.")])

\* resolve and reject overwriting a promise that has settled
settlePromise_Last(promise, outcome) == outcome

\* resolve(value) and reject(err): only the first call settles the promise
settlePromise(promise, outcome) == IF promise.kind = "none" THEN outcome ELSE promise

\* ------------------------------------------------------------------------
\* server.ts: helpers
\* ------------------------------------------------------------------------

\* first element of parts that yields a non-empty trimmed string (texts of
\* the model carry no surrounding blanks, so trim() is the identity on them)
RECURSIVE firstPartText(_)
firstPartText(parts) ==
  IF parts = <<>> THEN Undef
  ELSE LET p == Head(parts) IN
    IF ~Truthy(p) THEN firstPartText(Tail(parts))
    ELSE IF TypeOf(Get(p, "text")) = "string" /\ Truthy(Get(p, "text")) THEN Get(p, "text")
    ELSE IF TypeOf(Get(p, "payload")) = "string" /\ Truthy(Get(p, "payload")) THEN Get(p, "payload")
    ELSE IF TypeOf(Get(p, "body")) = "string" /\ Truthy(Get(p, "body")) THEN Get(p, "body")
    ELSE firstPartText(Tail(parts))

extractUserText(reqBody) ==
  LET msg == Coalesce(Get(Get(reqBody, "params"), "message"), Coalesce(Get(reqBody, "message"), Null))
      parts == Get(msg, "parts")
      found == IF Truthy(msg) /\ parts.t = "array" THEN firstPartText(parts.a) ELSE Undef
  IN IF found # Undef THEN found
     ELSE IF TypeOf(Get(reqBody, "input")) = "string" /\ Truthy(Get(reqBody, "input"))
       THEN Get(reqBody, "input")
     ELSE IF TypeOf(Get(Get(reqBody, "params"), "input")) = "string" /\ Truthy(Get(Get(reqBody, "params"), "input"))
       THEN Get(Get(reqBody, "params"), "input")
     ELSE IF TypeOf(Get(reqBody, "text")) = "string" /\ Truthy(Get(reqBody, "text"))
       THEN Get(reqBody, "text")
     ELSE Str("")

buildJsonRpcResult(idValue, resultObj) ==
  Obj([jsonrpc |-> Str("2.0"), id |-> Coalesce(idValue, Null), result |-> resultObj])

buildJsonRpcError(idValue, code, message, data) ==
  Obj([jsonrpc |-> Str("2.0"), id |-> Coalesce(idValue, Null),
       error |-> Obj([code |-> code, message |-> message, data |-> data])])

\* the handler's locals, from the request body
jsonrpcVersionOf(reqBody) == Coalesce(Get(reqBody, "jsonrpc"), Str("2.0"))

idOf(reqBody) == Coalesce(Get(reqBody, "id"), Null)

\* req.body?.params ?? {} : the empty object is an object none of whose
\* properties is defined
paramsOf(reqBody) == Coalesce(Get(reqBody, "params"), Obj([params |-> Undef]))

pushConfigOf(reqBody) ==
  Coalesce(Get(Get(reqBody, "configuration"), "pushNotificationConfig"), Null)

pushUrlFromParams(reqBody) ==
  Coalesce(Get(paramsOf(reqBody), "push_url"), Coalesce(Get(paramsOf(reqBody), "pushUrl"), Null))

pushTokenFromParams(reqBody) ==
  Coalesce(Get(paramsOf(reqBody), "push_token"), Coalesce(Get(paramsOf(reqBody), "pushToken"), Null))

pushUrlFromConfig(reqBody) == Coalesce(Get(pushConfigOf(reqBody), "url"), Null)

pushTokenFromConfig(reqBody) == Coalesce(Get(pushConfigOf(reqBody), "token"), Null)

pushUrlOf(reqBody) == Coalesce(pushUrlFromParams(reqBody), Coalesce(pushUrlFromConfig(reqBody), Null))

\* the token read from params alone
pushTokenOf_ParamsOnly(reqBody) == pushTokenFromParams(reqBody)

pushTokenOf(reqBody) == Coalesce(pushTokenFromParams(reqBody), Coalesce(pushTokenFromConfig(reqBody), Null))

\* a response written to the original caller
Response(status, json) == [status |-> status, body |-> json]

\* the 202 acknowledgment
ackResponse(reqBody) ==
  IF Truthy(idOf(reqBody))
  THEN Response(202, Obj([jsonrpc |-> jsonrpcVersionOf(reqBody), id |-> idOf(reqBody),
                          result |-> Obj([status |-> Str("accepted")])]))
  ELSE Response(202, Obj([ok |-> Bool(TRUE), status |-> Str("accepted")]))

\* output of the string and the stringify fallbacks of the handler
textOutput(agentReply) ==
  Obj([ok |-> Bool(TRUE),
       output |-> Obj([text |-> agentReply, artifacts |-> Arr(<<TextArtifact(agentReply)>>)])])

jsonOutput(agentReply) ==
  Obj([ok |-> Bool(TRUE),
       output |-> Obj([text |-> JSONstringify(agentReply), artifacts |-> Arr(<<JsonArtifact(agentReply)>>)])])

isJsonRpcEnvelope(agentReply) ==
  Truthy(Get(agentReply, "jsonrpc")) /\ (Truthy(Get(agentReply, "result")) \/ Truthy(Get(agentReply, "error")))

errorPayload(id, error) ==
  buildJsonRpcError(id, Coalesce(Get(error, "code"), Num(-32000)),
                    Coalesce(Get(error, "message"), Str("Agent error")),
                    Coalesce(Get(error, "data"), Null))

\* SYNC mode: the one response the handler writes, from the outcome of
\* handleDomainMessage
syncResponse(id, outcome) ==
  IF outcome.kind = "throw"
  THEN LET msg == String(Coalesce(Get(outcome.v, "message"), outcome.v)) IN
       IF Truthy(id)
       THEN Response(500, buildJsonRpcError(id, Num(-32000), msg, Obj([where |-> Str("sync_handler")])))
       ELSE Response(500, Obj([ok |-> Bool(FALSE), error |-> msg]))
  ELSE LET agentReply == outcome.v IN
       IF isJsonRpcEnvelope(agentReply) THEN Response(200, agentReply)
       ELSE IF Truthy(Get(agentReply, "result"))
         THEN Response(200, Obj([jsonrpc |-> Str("2.0"), id |-> id, result |-> Get(agentReply, "result")]))
       ELSE IF Truthy(Get(agentReply, "error"))
         THEN Response(500, errorPayload(id, Get(agentReply, "error")))
       ELSE IF TypeOf(agentReply) = "string"
         THEN Response(200, buildJsonRpcResult(id, textOutput(agentReply)))
       ELSE Response(200, buildJsonRpcResult(id, jsonOutput(agentReply)))

\* the background task wrapping whatever reply it got as the result
pushPayload_WrapsReply(id, outcome) == buildJsonRpcResult(id, outcome.v)

\* ASYNC mode: the payload the background task hands to postToPushUrl
pushPayload(id, outcome) ==
  IF outcome.kind = "throw"
  THEN buildJsonRpcError(id, Num(-32000), String(Coalesce(Get(outcome.v, "message"), outcome.v)),
                         Obj([where |-> Str("background_post")]))
  ELSE LET agentReply == outcome.v IN
       IF isJsonRpcEnvelope(agentReply) THEN agentReply
       ELSE IF Truthy(Get(agentReply, "result"))
         THEN buildJsonRpcResult(id, Get(agentReply, "result"))
       ELSE IF Truthy(Get(agentReply, "error"))
         THEN errorPayload(id, Get(agentReply, "error"))
       ELSE IF TypeOf(agentReply) = "string"
         THEN buildJsonRpcResult(id, textOutput(agentReply))
       ELSE buildJsonRpcResult(id, jsonOutput(agentReply))

\* the fetch call of postToPushUrl: Authorization only for a truthy token
pushRequest(pushUrl, payload, token) ==
  [url |-> pushUrl,
   authorization |-> IF Truthy(token) THEN Str("Bearer " \o token.s) ELSE Undef,
   body |-> payload]

\* postToPushUrl letting a network error of fetch escape
postToPushUrlThrows_NetErr(fetchOutcome) == fetchOutcome = "neterr"

\* postToPushUrl: whether the call throws, by the outcome of fetch; the
\* try/catch around fetch logs every failure and swallows it
postToPushUrlThrows(fetchOutcome) == FALSE

\* ------------------------------------------------------------------------
\* Inputs of the lookup pipeline: texts, messages, answers of the WHOIS provider
\* ------------------------------------------------------------------------

\* the scenario's text
CheckExampleText ==
  <<"C", "h", "e", "c", "k", " ", "d", "o", "m", "a", "i", "n", " ", "e", "x", "a",
    "m", "p", "l", "e", ".", "c", "o", "m">>

\* no domain in it
HelloThereText ==
  <<"h", "e", "l", "l", "o", " ", "t", "h", "e", "r", "e">>

\* markup, a protocol prefix, www. and capitals
HtmlUrlText ==
  <<"<", "p", ">", "I", "s", " ", "h", "t", "t", "p", "s", ":", "/", "/", "w", "w",
    "w", ".", "E", "x", "a", "m", "p", "l", "e", ".", "C", "O", "M", "/", " ", "t",
    "a", "k", "e", "n", "?", "<", "/", "p", ">">>

\* two domains
TwoDomainsText ==
  <<"t", "r", "y", " ", "f", "o", "o", ".", "i", "o", " ", "o", "r", " ", "b", "a",
    "r", ".", "d", "e", "v">>

\* a domain of four labels in capitals inside markup, then a second domain
SubdomainText ==
  <<"s", "e", "e", " ", "<", "b", ">", "S", "u", "b", ".", "F", "o", "o", ".", "C",
    "O", ".", "u", "k", "<", "/", "b", ">", " ", "a", "n", "d", " ", "h", "t", "t",
    "p", ":", "/", "/", "b", "a", "r", ".", "d", "e", "v">>

\* a dotted token that is no domain, then a domain
UnderscoreText ==
  <<"x", "_", "y", ".", "c", "o", "m", " ", "t", "h", "e", "n", " ", "G", "o", "o",
    "d", ".", "o", "r", "g">>

\* dots and letters, but nothing of the shape of a domain
DottedText ==
  <<"v", "e", "r", " ", "1", ".", "2", "a", ",", " ", "e", ".", "g", ".", " ", "t", "h", "i", "s">>

\* blanks only
BlankText ==
  <<" ", " ", " ">>

\* the domain of the scenario
ExampleDomain ==
  <<"e", "x", "a", "m", "p", "l", "e", ".", "c", "o", "m">>

\* a WHOIS answer in plain text, in capitals
RegisteredUpperText ==
  <<"D", "o", "m", "a", "i", "n", " ", "i", "s", " ", "R", "E", "G", "I", "S", "T",
    "E", "R", "E", "D">>

\* a WHOIS answer in plain text, capitalised
RegisteredMixedText ==
  <<"S", "t", "a", "t", "u", "s", ":", " ", "R", "e", "g", "i", "s", "t", "e", "r",
    "e", "d", " ", "s", "i", "n", "c", "e", " ", "1", "9", "9", "5">>

\* a WHOIS answer in plain text without the word
NoMatchText ==
  <<"N", "o", " ", "m", "a", "t", "c", "h", " ", "f", "o", "r", " ", "d", "o", "m",
    "a", "i", "n">>

\* the body of a gateway error
BadGatewayText ==
  <<"<", "h", "t", "m", "l", ">", "5", "0", "2", " ", "B", "a", "d", " ", "G", "a",
    "t", "e", "w", "a", "y", "<", "/", "h", "t", "m", "l", ">">>

\* keys and values of the provider's JSON answers
K_registered == <<"r", "e", "g", "i", "s", "t", "e", "r", "e", "d">>

K_is_registered == <<"i", "s", "_", "r", "e", "g", "i", "s", "t", "e", "r", "e", "d">>

K_domainStatus == <<"d", "o", "m", "a", "i", "n", "S", "t", "a", "t", "u", "s">>

K_registrar == <<"r", "e", "g", "i", "s", "t", "r", "a", "r">>

K_expires == <<"e", "x", "p", "i", "r", "e", "s">>

K_message == <<"m", "e", "s", "s", "a", "g", "e">>

V_registered == <<"r", "e", "g", "i", "s", "t", "e", "r", "e", "d">>

V_available == <<"a", "v", "a", "i", "l", "a", "b", "l", "e">>

V_ACME == <<"A", "C", "M", "E">>

V_2025_01_01 == <<"2", "0", "2", "5", "-", "0", "1", "-", "0", "1">>

V_InvalidApiKey == <<"I", "n", "v", "a", "l", "i", "d", " ", "A", "P", "I", " ", "k", "e", "y">>

\* the lookup result of the scenario: registered, registrar ACME, expires 2025-01-01
AcmeBody ==
  JsonBody(<< <<K_registered, Bool(TRUE)>>, <<K_registrar, Txt(V_ACME)>>,
              <<K_expires, Txt(V_2025_01_01)>> >>)

\* structured answers without a positive flag
RegisteredFalseBody == JsonBody(<< <<K_registered, Bool(FALSE)>> >>)

IsRegisteredFalseBody == JsonBody(<< <<K_is_registered, Bool(FALSE)>> >>)

AvailableBody == JsonBody(<< <<K_domainStatus, Txt(V_available)>> >>)

\* structured answers with a positive flag
StatusRegisteredBody == JsonBody(<< <<K_domainStatus, Txt(V_registered)>> >>)

\* the body of an error answer
InvalidKeyBody == JsonBody(<< <<K_message, Txt(V_InvalidApiKey)>> >>)

\* the outcomes of the fetch to the WHOIS provider
WhoisOutcomes ==
  { WhoisResponse(TRUE, AcmeBody),
    WhoisResponse(TRUE, RegisteredFalseBody),
    WhoisResponse(TRUE, IsRegisteredFalseBody),
    WhoisResponse(TRUE, AvailableBody),
    WhoisResponse(TRUE, StatusRegisteredBody),
    WhoisResponse(TRUE, TextBody(RegisteredUpperText)),
    WhoisResponse(TRUE, TextBody(RegisteredMixedText)),
    WhoisResponse(TRUE, TextBody(NoMatchText)),
    WhoisResponse(TRUE, TextBody(<<>>)),
    WhoisResponse(FALSE, InvalidKeyBody),
    WhoisResponse(FALSE, TextBody(BadGatewayText)),
    NetworkError("network down") }

\* domains as a caller of the tool may write them: in capitals, with blanks
\* around
CapitalDomain == <<"E", "x", "a", "m", "p", "l", "e", ".", "C", "O", "M">>

PaddedDomain == <<" ", " ", "F", "o", "o", ".", "E", "x", "a", "m", "p", "l", "e", ".", "c", "o", "m", " ">>

\* the arguments whoisTool.execute is called with: a plain string, an object
\* with a domain, the object followed by a context, and calls without a domain
ToolArgs ==
  UNION { { <<Txt(d)>>, <<Obj([domain |-> Txt(d)])>>,
            <<Obj([domain |-> Txt(d)]), Obj([runId |-> Str("run-1")])>> }
          : d \in {ExampleDomain, CapitalDomain, PaddedDomain} }
    \cup { <<>>, <<Obj([name |-> Str("example")])>>, <<Null, Obj([runId |-> Str("run-1")])>> }

TextPart(c) == Obj([kind |-> Str("text"), text |-> Txt(c)])

MessageOf(parts) == Obj([role |-> Str("user"), parts |-> Arr(parts)])

\* messages that carry a text
TextMessages ==
  { MessageOf(<<TextPart(CheckExampleText)>>),
    MessageOf(<<TextPart(HelloThereText)>>),
    MessageOf(<<TextPart(DottedText)>>),
    MessageOf(<<TextPart(HtmlUrlText)>>),
    MessageOf(<<TextPart(TwoDomainsText)>>),
    MessageOf(<<TextPart(SubdomainText)>>),
    MessageOf(<<TextPart(UnderscoreText)>>),
    MessageOf(<<Obj([type |-> Str("text"), text |-> Txt(HelloThereText)])>>),
    MessageOf(<<TextPart(BlankText), TextPart(CheckExampleText)>>),
    MessageOf(<<Obj([kind |-> Str("data"), data |-> Arr(<<TextPart(CheckExampleText)>>)])>>) }

FilePart == Obj([kind |-> Str("file"), url |-> Str("https://files.example/a.png")])

\* messages of several parts: the first text part has the only domain; only
\* a later text part has one; empty and non-text parts come before two text
\* parts with different domains; a data part with a nested text comes first
MultiPartMessages ==
  { MessageOf(<<TextPart(CheckExampleText), TextPart(HelloThereText)>>),
    MessageOf(<<TextPart(HelloThereText), TextPart(CheckExampleText)>>),
    MessageOf(<<TextPart(BlankText), FilePart, TextPart(TwoDomainsText), TextPart(CheckExampleText)>>),
    MessageOf(<<Obj([kind |-> Str("data"), data |-> Arr(<<FilePart, TextPart(CheckExampleText)>>)]),
                TextPart(TwoDomainsText)>>) }

\* messages with no extractable text: an empty parts array, parts with only
\* empty or non-text entries, no parts array
NoTextMessages ==
  { MessageOf(<<>>),
    MessageOf(<<TextPart(BlankText)>>),
    MessageOf(<<Obj([kind |-> Str("file"), url |-> Str("https://files.example/a.png")])>>),
    MessageOf(<<Obj([kind |-> Str("data"), data |-> Arr(<<Obj([kind |-> Str("file")])>>)])>>),
    MessageOf(<<Obj([kind |-> Str("text"), text |-> Num(42)])>>),
    Obj([role |-> Str("user"), content |-> Txt(HelloThereText)]) }

\* what the handler may be called with
Messages == TextMessages \cup MultiPartMessages \cup NoTextMessages \cup {MessageOf(<<Null>>), Null}

\* the correlation identifier of the request
LookupIds == {Null, Num(7)}

\* ------------------------------------------------------------------------
\* Inputs of the streaming handler
\* ------------------------------------------------------------------------

\* number of events the stream emits
MaxEvents == 3

\* what the handler is called with: a message with a content, and none
StreamInputs == { Obj([content |-> Str("Check domain example.com")]), Null }

\* a stream: an object with a method on
ValidStream == Obj([on |-> Function])

\* what domainAgent.stream may resolve with: a stream, nothing, the result
\* of a generate call
StreamResults == { ValidStream, Null, Undef, Obj([text |-> Str("Domain example.com appears to be registered.")]) }

\* what domainAgent.stream may throw and what an 'error' event carries
StreamErrors == { Obj([message |-> Str("stream broke")]) }

\* the 'message' events: a delta, a content with a text, a content that is
\* a string, an empty delta beside a content, blanks, a content without
\* text, no message at all
StreamMsgs ==
  { Obj([delta |-> Obj([text |-> Txt(<<" ", "f", "o", "o", ".", "i", "o">>)])]),
    Obj([content |-> Obj([text |-> Txt(<<" ", "i", "s", " ">>)])]),
    Obj([content |-> Txt(<<"t", "a", "k", "e", "n">>)]),
    Obj([delta |-> Obj([text |-> Txt(<<>>)]), content |-> Txt(<<"f", "r", "e", "e">>)]),
    Obj([delta |-> Obj([text |-> Txt(BlankText)])]),
    Obj([content |-> Obj([role |-> Str("assistant")])]),
    Null }

\* ------------------------------------------------------------------------
\* Inputs: request bodies, agent results, errors, outcomes of the push POST
\* ------------------------------------------------------------------------

\* number of requests the server handles, concurrently
NumReqs == 1

Reqs == 1 .. NumReqs

UserMessage == Obj([role |-> Str("user"),
                    parts |-> Arr(<<Obj([kind |-> Str("text"), text |-> Str("Check domain example.com")])>>)])

NoPush == [configuration |-> Undef, push_url |-> Undef, push_token |-> Undef]

\* configuration.pushNotificationConfig: { url, token }
ConfigPush ==
  [configuration |-> Obj([pushNotificationConfig |->
      Obj([url |-> Str("https://telex.example/hook"), token |-> Str("cfg-token")])]),
   push_url |-> Undef, push_token |-> Undef]

\* params.push_url, without a token
ParamsPush ==
  [configuration |-> Undef, push_url |-> Str("https://caller.example/push"), push_token |-> Undef]

\* req.body; a property the request does not carry reads as undefined
RequestBody(id, target) ==
  Obj([jsonrpc |-> Str("2.0"), id |-> id,
       params |-> Obj([message |-> UserMessage, push_url |-> target.push_url,
                       push_token |-> target.push_token]),
       configuration |-> target.configuration])

\* the requests: sync and push, with a correlation identifier and without
RequestBodies ==
  { RequestBody(Undef, NoPush),
    RequestBody(Num(7), NoPush),
    RequestBody(Num(7), ConfigPush),
    RequestBody(Undef, ParamsPush) }

\* params.push_url together with configuration.pushNotificationConfig: { url, token }
ParamsUrlConfigToken ==
  [configuration |-> Obj([pushNotificationConfig |->
      Obj([url |-> Str("https://telex.example/hook"), token |-> Str("cfg-token")])]),
   push_url |-> Str("https://caller.example/push"), push_token |-> Undef]

\* params.push_token together with configuration.pushNotificationConfig: { url }
ConfigUrlParamsToken ==
  [configuration |-> Obj([pushNotificationConfig |-> Obj([url |-> Str("https://telex.example/hook")])]),
   push_url |-> Undef, push_token |-> Str("prm-token")]

\* params.push_url and params.push_token
ParamsUrlParamsToken ==
  [configuration |-> Undef, push_url |-> Str("https://caller.example/push"),
   push_token |-> Str("prm-token")]

\* requests that name a push URL and a token in one place, in two places,
\* and a sync request
TargetBodies ==
  { RequestBody(Num(7), ParamsUrlConfigToken),
    RequestBody(Num(7), ConfigUrlParamsToken),
    RequestBody(Num(7), ParamsUrlParamsToken),
    RequestBody(Num(7), ConfigPush),
    RequestBody(Num(7), NoPush) }

HelloText == Str("Domain example.com appears to be registered.")

CanonicalOutput == Obj([text |-> HelloText, artifacts |-> Arr(<<TextArtifact(HelloText)>>)])

LookupError == Obj([code |-> Num(-32001), message |-> Str("lookup failed")])

LookupData == Obj([status |-> Str("ok"), domain |-> Str("example.com"), registered |-> Bool(TRUE)])

\* what domainAgent.generate may return: the agent is an opaque capability;
\* its results are values JSON.stringify accepts
AgentResults ==
  { Undef,
    Null,
    HelloText,
    Obj([text |-> HelloText]),
    Obj([output_text |-> HelloText, data |-> LookupData]),
    Obj([output |-> CanonicalOutput]),
    Obj([output |-> CanonicalOutput, text |-> Str("Lookup done.")]),
    Obj([data |-> LookupData]),
    Obj([foo |-> Num(1)]),
    \* canonical ResultEnvelopes
    Obj([ok |-> Bool(TRUE), output |-> CanonicalOutput]),
    Obj([ok |-> Bool(FALSE), error |-> LookupError]),
    \* the shapes handleDomainMessage itself returns
    ResultOk(CanonicalOutput),
    Obj([error |-> LookupError]),
    \* JSON-RPC envelopes, carrying an id of their own
    Obj([jsonrpc |-> Str("2.0"), id |-> Num(99), result |-> Obj([ok |-> Bool(TRUE), output |-> CanonicalOutput])]),
    Obj([jsonrpc |-> Str("2.0"), id |-> Num(99), error |-> LookupError]),
    Obj([jsonrpc |-> Str("2.0"), id |-> Num(99),
         result |-> Obj([ok |-> Bool(TRUE), output |-> CanonicalOutput]), error |-> LookupError]),
    \* the results of whoisTool.execute, returned verbatim: the lookup of
    \* the scenario, and a lookup whose fetch failed
    whoisTool_execute(ExampleDomain, WhoisResponse(TRUE, AcmeBody)).v,
    whoisTool_execute(ExampleDomain, NetworkError("network down")).v }

\* what domainAgent.generate may throw
AgentErrors == { Obj([message |-> Str("agent failed")]), Str("quota exceeded") }

\* fetch to the push URL: a 2xx response, a non-2xx response, a network error
FetchOutcomes == {"ok", "non2xx", "neterr"}

\* ------------------------------------------------------------------------
\* State
\* ------------------------------------------------------------------------
VARIABLES
  pc,          \* pc[r]: where the handling of request r stands
  body,        \* body[r]: req.body
  userText,    \* userText[r]: the handler's userText
  agentIn,     \* agentIn[r]: content of the message handed to domainAgent.generate
  agentOut,    \* agentOut[r]: outcome of domainAgent.generate
  agentReply,  \* agentReply[r]: outcome of handleDomainMessage
  resp,        \* resp[r]: the responses written to res, in order
  posts,       \* posts[r]: the fetch calls to the push URL, in order
  fetched,     \* fetched[r]: the outcomes of those fetch calls, in order
  inCatch,     \* inCatch[r]: the background task is in its catch block
  unhandled,   \* unhandled[r]: a rejection escaped the background task
  lkPc,        \* where the handler that calls the lookup itself stands
  lkId,        \* the correlation identifier of its request
  lkMessage,   \* the message it was called with
  lkDomain,    \* the domain it extracted
  lkFetch,     \* the outcome of the fetch to the WHOIS provider
  lkTool,      \* the outcome of checkDomainStatus
  lkReply,     \* the outcome of the handler
  lkResp,      \* the responses written for its request, in order
  lkCalls,     \* the domains the lookup was invoked with, in order
  tlPc,        \* where a call of whoisTool.execute (domain-agent.ts) stands
  tlArgs,      \* the arguments of the call
  tlSent,      \* the domain of the request sent to the WHOIS provider
  tlResult,    \* the outcome of the call
  stPc,        \* where the streaming handler stands
  stStream,    \* the outcome of domainAgent.stream
  stFinalText, \* finalText
  stEvents,    \* the events its listeners received, in order
  stPromise,   \* the promise the handler awaits
  stOutcome    \* the outcome of the handler

\* the state of the handler that calls the lookup itself
lookupVars == <<lkPc, lkId, lkMessage, lkDomain, lkFetch, lkTool, lkReply, lkResp, lkCalls>>

\* the state of a call of whoisTool.execute
toolVars == <<tlPc, tlArgs, tlSent, tlResult>>

\* the state of the streaming handler
streamVars == <<stPc, stStream, stFinalText, stEvents, stPromise, stOutcome>>

\* the state of the invoke handler of server.ts
handlerVars == <<pc, body, userText, agentIn, agentOut, agentReply, resp, posts, fetched, inCatch, unhandled>>

vars == <<pc, body, userText, agentIn, agentOut, agentReply, resp, posts, fetched, inCatch, unhandled,
          lkPc, lkId, lkMessage, lkDomain, lkFetch, lkTool, lkReply, lkResp, lkCalls,
          tlPc, tlArgs, tlSent, tlResult,
          stPc, stStream, stFinalText, stEvents, stPromise, stOutcome>>

Init ==
  /\ pc = [r \in Reqs |-> "idle"]
  /\ body = [r \in Reqs |-> Null]
  /\ userText = [r \in Reqs |-> Undef]
  /\ agentIn = [r \in Reqs |-> Undef]
  /\ agentOut = [r \in Reqs |-> Pending]
  /\ agentReply = [r \in Reqs |-> Pending]
  /\ resp = [r \in Reqs |-> <<>>]
  /\ posts = [r \in Reqs |-> <<>>]
  /\ fetched = [r \in Reqs |-> <<>>]
  /\ inCatch = [r \in Reqs |-> FALSE]
  /\ unhandled = [r \in Reqs |-> FALSE]
  /\ lkPc = "idle"
  /\ lkId = Null
  /\ lkMessage = Null
  /\ lkDomain = Null
  /\ lkFetch = Null
  /\ lkTool = Pending
  /\ lkReply = Pending
  /\ lkResp = <<>>
  /\ lkCalls = <<>>
  /\ tlPc = "idle"
  /\ tlArgs = <<>>
  /\ tlSent = Null
  /\ tlResult = Pending
  /\ stPc = "idle"
  /\ stStream = Pending
  /\ stFinalText = <<>>
  /\ stEvents = <<>>
  /\ stPromise = Pending
  /\ stOutcome = Pending

\* ------------------------------------------------------------------------
\* The invoke handler, statement by statement
\* ------------------------------------------------------------------------

\* the push branch without its acknowledgment
PcAfterReceive_NoAck(pushUrl) == "invoke"

\* if (pushUrl) { acknowledge ... } else SYNC mode
PcAfterReceive(pushUrl) == IF Truthy(pushUrl) THEN "ack" ELSE "invoke"

\* the push branch falling through into SYNC mode
PcAfterReply_FallThrough(pushUrl) == "sync"

\* the reply is handled by the background task (push) or by the handler (sync)
PcAfterReply(pushUrl) == IF Truthy(pushUrl) THEN "push" ELSE "sync"

\* the request arrives; the handler reads id, userText and the push target
Receive(r) ==
  /\ pc[r] = "idle"
  /\ \E b \in RequestBodies :
       /\ body' = [body EXCEPT ![r] = b]
       /\ userText' = [userText EXCEPT ![r] = extractUserText(b)]
       /\ pc' = [pc EXCEPT ![r] = PcAfterReceive(pushUrlOf(b))]
  /\ UNCHANGED <<agentIn, agentOut, agentReply, resp, posts, fetched, inCatch, unhandled>>
  /\ UNCHANGED <<lookupVars, toolVars, streamVars>>

\* res.status(202).json(...): id and jsonrpcVersion come from the parsed JSON
\* body and no header was sent before, so the write does not throw
Ack(r) ==
  /\ pc[r] = "ack"
  /\ resp' = [resp EXCEPT ![r] = Append(@, ackResponse(body[r]))]
  /\ pc' = [pc EXCEPT ![r] = "invoke"]
  /\ UNCHANGED <<body, userText, agentIn, agentOut, agentReply, posts, fetched, inCatch, unhandled>>
  /\ UNCHANGED <<lookupVars, toolVars, streamVars>>

\* handleDomainMessage(String(userText)) runs up to  await generate({ message })
Invoke(r) ==
  /\ pc[r] = "invoke"
  /\ agentIn' = [agentIn EXCEPT ![r] = messageContent(String(userText[r]))]
  /\ pc' = [pc EXCEPT ![r] = "agent"]
  /\ UNCHANGED <<body, userText, agentOut, agentReply, resp, posts, fetched, inCatch, unhandled>>
  /\ UNCHANGED <<lookupVars, toolVars, streamVars>>

\* the agent call completes by returning
AgentReturns(r) ==
  /\ pc[r] = "agent"
  /\ \E v \in AgentResults : agentOut' = [agentOut EXCEPT ![r] = Return(v)]
  /\ pc' = [pc EXCEPT ![r] = "resumed"]
  /\ UNCHANGED <<body, userText, agentIn, agentReply, resp, posts, fetched, inCatch, unhandled>>
  /\ UNCHANGED <<lookupVars, toolVars, streamVars>>

\* the agent call completes by throwing
AgentThrows(r) ==
  /\ pc[r] = "agent"
  /\ \E e \in AgentErrors : agentOut' = [agentOut EXCEPT ![r] = Throw(e)]
  /\ pc' = [pc EXCEPT ![r] = "resumed"]
  /\ UNCHANGED <<body, userText, agentIn, agentReply, resp, posts, fetched, inCatch, unhandled>>
  /\ UNCHANGED <<lookupVars, toolVars, streamVars>>

\* handleDomainMessage resumes and settles
Resume(r) ==
  /\ pc[r] = "resumed"
  /\ agentReply' = [agentReply EXCEPT ![r] = handleDomainMessage(agentOut[r])]
  /\ pc' = [pc EXCEPT ![r] = PcAfterReply(pushUrlOf(body[r]))]
  /\ UNCHANGED <<body, userText, agentIn, agentOut, resp, posts, fetched, inCatch, unhandled>>
  /\ UNCHANGED <<lookupVars, toolVars, streamVars>>

\* SYNC mode: the handler writes the response
RespondSync(r) ==
  /\ pc[r] = "sync"
  /\ resp' = [resp EXCEPT ![r] = Append(@, syncResponse(idOf(body[r]), agentReply[r]))]
  /\ pc' = [pc EXCEPT ![r] = "done"]
  /\ UNCHANGED <<body, userText, agentIn, agentOut, agentReply, posts, fetched, inCatch, unhandled>>
  /\ UNCHANGED <<lookupVars, toolVars, streamVars>>

\* ASYNC mode: the background task calls postToPushUrl, which calls fetch
PushPost(r) ==
  /\ pc[r] = "push"
  /\ posts' = [posts EXCEPT ![r] =
       Append(@, pushRequest(pushUrlOf(body[r]), pushPayload(idOf(body[r]), agentReply[r]),
                             pushTokenOf(body[r])))]
  /\ inCatch' = [inCatch EXCEPT ![r] = agentReply[r].kind = "throw"]
  /\ pc' = [pc EXCEPT ![r] = "posting"]
  /\ UNCHANGED <<body, userText, agentIn, agentOut, agentReply, resp, fetched, unhandled>>
  /\ UNCHANGED <<lookupVars, toolVars, streamVars>>

\* fetch settles and postToPushUrl with it; were postToPushUrl to throw in
\* the try block, the catch block would post the error payload, and were it
\* to throw in the catch block, the task's promise would reject unhandled
PostSettles(r) ==
  /\ pc[r] = "posting"
  /\ \E o \in FetchOutcomes :
       /\ fetched' = [fetched EXCEPT ![r] = Append(@, o)]
       /\ IF ~postToPushUrlThrows(o)
          THEN /\ pc' = [pc EXCEPT ![r] = "done"]
               /\ UNCHANGED <<posts, inCatch, unhandled>>
          ELSE IF inCatch[r]
          THEN /\ pc' = [pc EXCEPT ![r] = "done"]
               /\ unhandled' = [unhandled EXCEPT ![r] = TRUE]
               /\ UNCHANGED <<posts, inCatch>>
          ELSE /\ posts' = [posts EXCEPT ![r] =
                    Append(@, pushRequest(pushUrlOf(body[r]),
                                          pushPayload(idOf(body[r]), Throw(Obj([message |-> Str("fetch failed")]))),
                                          pushTokenOf(body[r])))]
               /\ inCatch' = [inCatch EXCEPT ![r] = TRUE]
               /\ UNCHANGED <<pc, unhandled>>
  /\ UNCHANGED <<body, userText, agentIn, agentOut, agentReply, resp>>
  /\ UNCHANGED <<lookupVars, toolVars, streamVars>>

Next ==
  \E r \in Reqs :
    \/ Receive(r)
    \/ Ack(r)
    \/ Invoke(r)
    \/ AgentReturns(r)
    \/ AgentThrows(r)
    \/ Resume(r)
    \/ RespondSync(r)
    \/ PushPost(r)
    \/ PostSettles(r)

Spec == Init /\ [][Next]_vars

\* a request that names its push target in params, in its configuration or
\* in both arrives
ReceiveTarget(r) ==
  /\ pc[r] = "idle"
  /\ \E b \in TargetBodies :
       /\ body' = [body EXCEPT ![r] = b]
       /\ userText' = [userText EXCEPT ![r] = extractUserText(b)]
       /\ pc' = [pc EXCEPT ![r] = PcAfterReceive(pushUrlOf(b))]
  /\ UNCHANGED <<agentIn, agentOut, agentReply, resp, posts, fetched, inCatch, unhandled>>
  /\ UNCHANGED <<lookupVars, toolVars, streamVars>>

TargetNext ==
  \E r \in Reqs :
    \/ ReceiveTarget(r)
    \/ Ack(r)
    \/ Invoke(r)
    \/ AgentReturns(r)
    \/ AgentThrows(r)
    \/ Resume(r)
    \/ RespondSync(r)
    \/ PushPost(r)
    \/ PostSettles(r)

\* the invoke handler on requests that name push targets in several places
TargetSpec == Init /\ [][TargetNext]_vars

\* the steps of request r that the server itself takes
HandlerStep(r) == Ack(r) \/ Invoke(r) \/ Resume(r) \/ RespondSync(r) \/ PushPost(r)

\* The event loop runs every continuation that is ready: the server's own
\* steps are weakly fair. The agent and the push endpoint are external and
\* need not answer.
Fairness == \A r \in Reqs : WF_vars(HandlerStep(r))

LiveSpec == Spec /\ Fairness

\* ------------------------------------------------------------------------
\* The handler that calls the lookup itself (agents/domain-agent.js), and
\* the sync branch of the invoke handler answering with its reply
\* ------------------------------------------------------------------------

\* handleDomainMessage(message) is called for a request without push target
LkReceive ==
  /\ lkPc = "idle"
  /\ \E m \in Messages, id \in LookupIds :
       /\ lkMessage' = m
       /\ lkId' = id
  /\ lkPc' = "extract"
  /\ UNCHANGED <<lkDomain, lkFetch, lkTool, lkReply, lkResp, lkCalls>>
  /\ UNCHANGED <<handlerVars, toolVars, streamVars>>

\* the handler runs up to  await checkDomainStatus(domain), which calls
\* fetch, or returns before it
LkExtract ==
  /\ lkPc = "extract"
  /\ LET before == beforeLookup(lkMessage) IN
       IF ~Truthy(before.domain)
       THEN /\ lkReply' = Return(before.reply)
            /\ lkPc' = "respond"
            /\ UNCHANGED <<lkDomain, lkCalls>>
       ELSE /\ lkDomain' = before.domain
            /\ lkCalls' = Append(lkCalls, before.domain.s)
            /\ lkPc' = "whois"
            /\ UNCHANGED lkReply
  /\ UNCHANGED <<lkId, lkMessage, lkFetch, lkTool, lkResp>>
  /\ UNCHANGED <<handlerVars, toolVars, streamVars>>

\* the fetch to the WHOIS provider settles and whoisTool.execute with it
LkWhoisSettles ==
  /\ lkPc = "whois"
  /\ \E o \in WhoisOutcomes :
       /\ lkFetch' = o
       /\ lkTool' = checkDomainStatus(lkDomain.c, o)
  /\ lkPc' = "lookedup"
  /\ UNCHANGED <<lkId, lkMessage, lkDomain, lkReply, lkResp, lkCalls>>
  /\ UNCHANGED <<handlerVars, toolVars, streamVars>>

\* the handler resumes with toolResult and returns
LkReturn ==
  /\ lkPc = "lookedup"
  /\ lkReply' = Return(afterLookup(lkTool))
  /\ lkPc' = "respond"
  /\ UNCHANGED <<lkId, lkMessage, lkDomain, lkFetch, lkTool, lkResp, lkCalls>>
  /\ UNCHANGED <<handlerVars, toolVars, streamVars>>

\* SYNC mode: the response for the reply
LkRespond ==
  /\ lkPc = "respond"
  /\ lkResp' = Append(lkResp, syncResponse(lkId, lkReply))
  /\ lkPc' = "done"
  /\ UNCHANGED <<lkId, lkMessage, lkDomain, lkFetch, lkTool, lkReply, lkCalls>>
  /\ UNCHANGED <<handlerVars, toolVars, streamVars>>

LookupNext ==
  \/ LkReceive
  \/ LkExtract
  \/ LkWhoisSettles
  \/ LkReturn
  \/ LkRespond

LookupSpec == Init /\ [][LookupNext]_vars

\* ------------------------------------------------------------------------
\* A call of whoisTool.execute of domain-agent.ts, as the agent makes it
\* ------------------------------------------------------------------------

\* execute(...args) runs up to  await fetch(url), or throws before it
ToolCall ==
  /\ tlPc = "idle"
  /\ \E args \in ToolArgs :
       /\ tlArgs' = args
       /\ LET domainArg == whoisTool_domainArg(args) IN
            IF domainArg.kind = "throw"
            THEN tlResult' = domainArg /\ tlPc' = "done" /\ UNCHANGED tlSent
            ELSE IF domainArg.v = <<>>
            THEN /\ tlResult' = whoisTool_execute(<<>>, Null)
                 /\ tlPc' = "done"
                 /\ UNCHANGED tlSent
            ELSE /\ tlSent' = Txt(whoisTool_domain(domainArg.v))
                 /\ tlPc' = "fetch"
                 /\ UNCHANGED tlResult
  /\ UNCHANGED <<handlerVars, lookupVars, streamVars>>

\* fetch settles and execute returns
ToolFetchSettles ==
  /\ tlPc = "fetch"
  /\ \E o \in WhoisOutcomes :
       tlResult' = whoisTool_execute(whoisTool_domainArg(tlArgs).v, o)
  /\ tlPc' = "done"
  /\ UNCHANGED <<tlArgs, tlSent>>
  /\ UNCHANGED <<handlerVars, lookupVars, streamVars>>

ToolNext == ToolCall \/ ToolFetchSettles

ToolSpec == Init /\ [][ToolNext]_vars

\* ------------------------------------------------------------------------
\* The streaming handler (workflows/handleDomainMessage.ts), event by event
\* ------------------------------------------------------------------------

\* the listeners are registered on a stream
Listening == stStream = Return(ValidStream) /\ stPc \in {"listening", "returned"}

\* handleDomainMessage(message) runs up to  await domainAgent.stream(...);
\* reading message.content of no message throws into the catch block
StCall ==
  /\ stPc = "idle"
  /\ \E message \in StreamInputs :
       IF isNullish(message)
       THEN stOutcome' = Return(FailureReply) /\ stPc' = "returned"
       ELSE stPc' = "stream" /\ UNCHANGED stOutcome
  /\ UNCHANGED <<stStream, stFinalText, stEvents, stPromise>>
  /\ UNCHANGED <<handlerVars, lookupVars, toolVars>>

\* domainAgent.stream resolves: the handler registers its listeners on a
\* stream and awaits the promise, or throws into the catch block
StStreamReturns ==
  /\ stPc = "stream"
  /\ \E stream \in StreamResults :
       /\ stStream' = Return(stream)
       /\ IF isInvalidStream(stream)
          THEN stOutcome' = Return(FailureReply) /\ stPc' = "returned"
          ELSE stPc' = "listening" /\ UNCHANGED stOutcome
  /\ UNCHANGED <<stFinalText, stEvents, stPromise>>
  /\ UNCHANGED <<handlerVars, lookupVars, toolVars>>

\* domainAgent.stream rejects: the catch block returns
StStreamThrows ==
  /\ stPc = "stream"
  /\ \E err \in StreamErrors : stStream' = Throw(err)
  /\ stOutcome' = Return(FailureReply)
  /\ stPc' = "returned"
  /\ UNCHANGED <<stFinalText, stEvents, stPromise>>
  /\ UNCHANGED <<handlerVars, lookupVars, toolVars>>

\* the listener of 'message'
StMessage ==
  /\ Listening
  /\ Len(stEvents) < MaxEvents
  /\ \E msg \in StreamMsgs :
       /\ stFinalText' = appendChunk(stFinalText, chunkOf(msg))
       /\ stEvents' = Append(stEvents, [type |-> "message", v |-> msg])
  /\ UNCHANGED <<stPc, stStream, stPromise, stOutcome>>
  /\ UNCHANGED <<handlerVars, lookupVars, toolVars>>

\* the listener of 'end'
StEnd ==
  /\ Listening
  /\ Len(stEvents) < MaxEvents
  /\ stPromise' = settlePromise(stPromise, Return(streamReply(stFinalText)))
  /\ stEvents' = Append(stEvents, [type |-> "end", v |-> Undef])
  /\ UNCHANGED <<stPc, stStream, stFinalText, stOutcome>>
  /\ UNCHANGED <<handlerVars, lookupVars, toolVars>>

\* the listener of 'error'
StError ==
  /\ Listening
  /\ Len(stEvents) < MaxEvents
  /\ \E err \in StreamErrors :
       /\ stPromise' = settlePromise(stPromise, Throw(err))
       /\ stEvents' = Append(stEvents, [type |-> "error", v |-> err])
  /\ UNCHANGED <<stPc, stStream, stFinalText, stOutcome>>
  /\ UNCHANGED <<handlerVars, lookupVars, toolVars>>

\* the promise has settled and the handler resumes: it returns the value,
\* or the catch block returns for a rejection
StReturn ==
  /\ stPc = "listening"
  /\ stPromise.kind # "none"
  /\ stOutcome' = IF stPromise.kind = "return" THEN stPromise ELSE Return(FailureReply)
  /\ stPc' = "returned"
  /\ UNCHANGED <<stStream, stFinalText, stEvents, stPromise>>
  /\ UNCHANGED <<handlerVars, lookupVars, toolVars>>

StreamNext ==
  \/ StCall
  \/ StStreamReturns
  \/ StStreamThrows
  \/ StMessage
  \/ StEnd
  \/ StError
  \/ StReturn

StreamSpec == Init /\ [][StreamNext]_vars

\* ------------------------------------------------------------------------
\* Shapes of envelopes
\* ------------------------------------------------------------------------

\* a CanonicalOutput: text is a string, artifacts a sequence
IsCanonicalOutput(o) ==
  o.t = "object" /\ TypeOf(Get(o, "text")) = "string" /\ Get(o, "artifacts").t = "array"

\* { ok: true, output }
IsSuccessShape(e) == Get(e, "ok") = Bool(TRUE) /\ IsCanonicalOutput(Get(e, "output"))

\* error: { code, message }
IsErrorObject(e) ==
  e.t = "object" /\ TypeOf(Get(e, "code")) = "number" /\ TypeOf(Get(e, "message")) = "string"

\* a success, as { ok: true, output } or wrapped as { result: { ok: true, output } }
IsSuccessEnvelope(v) == IsSuccessShape(v) \/ IsSuccessShape(Get(v, "result"))

\* an error, as { ok: false, error } or { error }
IsErrorEnvelope(v) == Get(v, "ok") # Bool(TRUE) /\ IsErrorObject(Get(v, "error"))

\* exactly one of the two
IsResultEnvelope(v) == IsSuccessEnvelope(v) # IsErrorEnvelope(v)

\* handleDomainMessage has settled for request r
Replied(r) == agentReply[r].kind # "none"

\* request r asks for push delivery
IsPush(r) == pc[r] # "idle" /\ Truthy(pushUrlOf(body[r]))

\* request r is a sync request
IsSync(r) == pc[r] # "idle" /\ ~Truthy(pushUrlOf(body[r]))

\* ------------------------------------------------------------------------
\* Claims
\* ------------------------------------------------------------------------

\* C1: normalization is total: whatever the agent returned or threw,
\* handleDomainMessage returns (never throws) exactly one valid
\* ResultEnvelope, a success with a CanonicalOutput or an error with code
\* and message.
C1_NormalizationTotal ==
  \A r \in Reqs :
    Replied(r) => agentReply[r].kind = "return" /\ IsResultEnvelope(agentReply[r].v)

\* a final envelope carries exactly one of the members result and error
ExactlyOneMember(b) == Has(b, "result") # Has(b, "error")

\* C2: every final envelope the endpoint emits, as the sync response body
\* or as the body POSTed to the push URL, has exactly one of the two shapes:
\* a result or an error, never both and never neither.
C2_ExactlyOneShape ==
  \A r \in Reqs :
    /\ \A i \in 1 .. Len(resp[r]) : resp[r][i].status # 202 => ExactlyOneMember(resp[r][i].body)
    /\ \A i \in 1 .. Len(posts[r]) : ExactlyOneMember(posts[r][i].body)

\* C3: idempotence: an agent result that already is a ResultEnvelope is
\* returned unchanged, and what handleDomainMessage returned, fed back in
\* as the agent result, is returned unchanged.
C3_Idempotent ==
  \A r \in Reqs :
    Replied(r) =>
      /\ (agentOut[r].kind = "return" /\ IsResultEnvelope(agentOut[r].v))
           => agentReply[r] = Return(agentOut[r].v)
      /\ handleDomainMessage(agentReply[r]) = agentReply[r]

\* the agent has been invoked for request r
AgentInvoked(r) == pc[r] \in {"agent", "resumed", "sync", "push", "posting", "done"}

\* the 202 acknowledgment is the first response written for request r
AckWritten(r) == Len(resp[r]) >= 1 /\ resp[r][1] = ackResponse(body[r])

\* C4: with a push target, the 202 acknowledgment is written before the
\* agent is invoked, and the POST to the push URL happens only after the
\* acknowledgment was written.
C4_AckBeforeWork ==
  \A r \in Reqs :
    IsPush(r) => /\ AgentInvoked(r) => AckWritten(r)
                 /\ posts[r] # <<>> => AckWritten(r)

\* C4 witness: a push request is acknowledged while its agent call is pending
C4_Witness ==
  \E r \in Reqs : IsPush(r) /\ pc[r] = "agent" /\ agentOut[r].kind = "none" /\ AckWritten(r)

\* C5: every request gets exactly one HTTP response: never a second one,
\* and one has been written by the time its handling is over, in sync and
\* in push mode, whatever the agent returned or threw.
C5_ExactlyOneResponse ==
  \A r \in Reqs :
    /\ Len(resp[r]) <= 1
    /\ pc[r] = "done" => Len(resp[r]) = 1
    /\ (IsSync(r) /\ Len(resp[r]) = 1) => pc[r] = "done"

\* C5 witness: a push request whose agent threw is over, with one response
C5_Witness ==
  \E r \in Reqs :
    IsPush(r) /\ pc[r] = "done" /\ agentOut[r].kind = "throw" /\ Len(resp[r]) = 1

\* C6: without a push target the status is 500 exactly when the body is an
\* error envelope and 200 exactly when it is a success envelope.
C6_StatusMatchesBody ==
  \A r \in Reqs :
    (IsSync(r) /\ resp[r] # <<>>) =>
      /\ resp[r][1].status = 500 <=> Has(resp[r][1].body, "error")
      /\ resp[r][1].status = 200 <=>
           (Has(resp[r][1].body, "result") /\ ~Has(resp[r][1].body, "error"))

\* C7: push delivery is a single attempt: at most one POST per request,
\* and none after a failed one.
C7_SinglePost ==
  \A r \in Reqs :
    /\ Len(posts[r]) <= 1
    /\ \A i \in 1 .. Len(fetched[r]) : fetched[r][i] # "ok" => Len(posts[r]) = i

\* C7 witness: the one POST failed with a network error and the task is over
C7_Witness ==
  \E r \in Reqs : pc[r] = "done" /\ fetched[r] = <<"neterr">> /\ Len(posts[r]) = 1

\* C8: for a push request whose agent call has completed, by returning or
\* by throwing, a POST carrying the final envelope is eventually attempted.
C8_PushEventuallyPosted ==
  \A r \in Reqs :
    (IsPush(r) /\ agentOut[r].kind # "none")
      ~> (posts[r] # <<>> /\ (Has(posts[r][1].body, "result") \/ Has(posts[r][1].body, "error")))

\* C8 witness: the agent returned a plain string and its envelope was posted
C8_Witness ==
  \E r \in Reqs :
    /\ IsPush(r)
    /\ agentOut[r] = Return(HelloText)
    /\ posts[r] # <<>>
    /\ Has(posts[r][1].body, "result")

\* C9: a failed POST is isolated: the 202 response stays the only thing
\* sent to the caller, and no rejection escapes the background task.
C9_DeliveryFailureIsolated ==
  \A r \in Reqs :
    (\E i \in 1 .. Len(fetched[r]) : fetched[r][i] # "ok") =>
      /\ resp[r] = <<ackResponse(body[r])>>
      /\ ~unhandled[r]
      /\ pc[r] = "done"

\* C9 witness: the push endpoint answered non-2xx
C9_Witness ==
  \E r \in Reqs : fetched[r] = <<"non2xx">> /\ resp[r] = <<ackResponse(body[r])>>

\* C10: the envelope POSTed to the push URL carries the request's
\* correlation identifier as its id.
C10_PushCarriesRequestId ==
  \A r \in Reqs :
    \A i \in 1 .. Len(posts[r]) : Get(posts[r][i].body, "id") = idOf(body[r])

\* C11: for every request with a push target, the 202 acknowledgment
\* carries the request's correlation identifier (null for a request without
\* one) together with result.status = "accepted", whatever the identifier.
C11_AckCarriesIdentifier ==
  \A r \in Reqs :
    (IsPush(r) /\ resp[r] # <<>>) =>
      /\ resp[r][1].status = 202
      /\ Has(resp[r][1].body, "id")
      /\ Get(resp[r][1].body, "id") = idOf(body[r])
      /\ Get(Get(resp[r][1].body, "result"), "status") = Str("accepted")

\* the token supplied with the request: params.push_token, params.pushToken,
\* configuration.pushNotificationConfig.token, the first that is given
suppliedToken(reqBody) ==
  LET given == <<Get(Get(reqBody, "params"), "push_token"),
                 Get(Get(reqBody, "params"), "pushToken"),
                 Get(Get(Get(reqBody, "configuration"), "pushNotificationConfig"), "token")>>
      present == {i \in DOMAIN given : ~isNullish(given[i])}
  IN IF present = {} THEN Null ELSE given[CHOOSE i \in present : \A j \in present : i <= j]

\* C12: the POST to the push URL carries the header Authorization: Bearer
\* <token> exactly when a (non-empty) token was supplied with the request,
\* and no Authorization header otherwise.
C12_BearerExactlyWhenToken ==
  \A r \in Reqs :
    \A i \in 1 .. Len(posts[r]) :
      IF Truthy(suppliedToken(body[r]))
      THEN posts[r][i].authorization = Str("Bearer " \o suppliedToken(body[r]).s)
      ELSE posts[r][i].authorization = Undef

\* C12 witness: a request that supplied a token in its push configuration
\* was posted with the bearer header
C12_Witness ==
  \E r \in Reqs :
    /\ Get(pushConfigOf(body[r]), "token") = Str("cfg-token")
    /\ posts[r] # <<>>
    /\ posts[r][1].authorization = Str("Bearer cfg-token")

\* the result object { ok: true, output } of a success envelope, null for
\* anything else
successResult(v) ==
  IF Get(Get(v, "result"), "ok") = Bool(TRUE) THEN Get(v, "result")
  ELSE IF Get(v, "ok") = Bool(TRUE) THEN v
  ELSE Null

\* an artifact one of whose parts carries the text, as text or as the JSON
\* value the text is the serialization of
mirrorsText(artifact, text) ==
  /\ Get(artifact, "parts").t = "array"
  /\ \E i \in DOMAIN Get(artifact, "parts").a :
       LET part == Get(artifact, "parts").a[i]
       IN \/ Get(part, "text") = text
          \/ Has(part, "json") /\ JSONstringify(Get(part, "json")) = text

\* output.text is a non-empty string and an artifact mirrors it
hasMirroredText(output) ==
  /\ TypeOf(Get(output, "text")) = "string"
  /\ Truthy(Get(output, "text"))
  /\ Get(output, "artifacts").t = "array"
  /\ \E i \in DOMAIN Get(output, "artifacts").a :
       mirrorsText(Get(output, "artifacts").a[i], Get(output, "text"))

\* C13: in every success envelope a handler produces, as the reply of
\* handleDomainMessage or as the body of the sync response, output.text is
\* present and non-empty and an artifact mirrors it; so for a wrapped lookup
\* output and for the fallback that serializes an unknown or undefined value.
C13_SuccessTextAndArtifact ==
  /\ \A r \in Reqs :
       /\ (Replied(r) /\ agentReply[r].kind = "return" /\ successResult(agentReply[r].v) # Null)
            => hasMirroredText(Get(successResult(agentReply[r].v), "output"))
       /\ \A i \in 1 .. Len(resp[r]) :
            successResult(resp[r][i].body) # Null
              => hasMirroredText(Get(successResult(resp[r][i].body), "output"))
  /\ (lkReply.kind = "return" /\ successResult(lkReply.v) # Null)
       => hasMirroredText(Get(successResult(lkReply.v), "output"))
  /\ \A i \in 1 .. Len(lkResp) :
       successResult(lkResp[i].body) # Null
         => hasMirroredText(Get(successResult(lkResp[i].body), "output"))

\* the lookup of the request has settled
LookupSettled == lkTool.kind # "none"

\* the error object of an error envelope, null for anything else
errorOf(v) == IF successResult(v) = Null /\ IsErrorObject(Get(v, "error")) THEN Get(v, "error") ELSE Null

\* C14: when the lookup client received a non-2xx response, the envelope
\* the handler returns is an error with code -32001 and, with no push
\* target, the HTTP response has status 500.
C14_Non2xxIsError500 ==
  (LookupSettled /\ lkFetch.kind = "response" /\ ~lkFetch.ok) =>
    /\ lkReply.kind = "return" => Get(errorOf(lkReply.v), "code") = Num(-32001)
    /\ lkResp # <<>> =>
         /\ lkResp[1].status = 500
         /\ Get(errorOf(lkResp[1].body), "code") = Num(-32001)

\* C15: a network error of the WHOIS call is surfaced as an error envelope
\* with code -32001, and a failure of the agent call as an error envelope
\* with code -32000; neither as a success envelope.
C15_FailuresAreErrors ==
  /\ (LookupSettled /\ lkFetch.kind = "neterr") =>
       /\ lkReply.kind = "return" => Get(errorOf(lkReply.v), "code") = Num(-32001)
       /\ lkResp # <<>> => Get(errorOf(lkResp[1].body), "code") = Num(-32001)
  /\ \A r \in Reqs :
       (Replied(r) /\ agentOut[r].kind = "throw") =>
         /\ agentReply[r].kind = "return"
         /\ Get(errorOf(agentReply[r].v), "code") = Num(-32000)

\* messages whose text has no domain in it
NoDomainMessages ==
  { MessageOf(<<TextPart(HelloThereText)>>),
    MessageOf(<<Obj([type |-> Str("text"), text |-> Txt(HelloThereText)])>>),
    MessageOf(<<TextPart(DottedText)>>) }

\* the success envelope whose text is the clarifying message
IsClarifying(v) ==
  /\ successResult(v) # Null
  /\ Get(Get(successResult(v), "output"), "text") = ClarifyingText
  /\ hasMirroredText(Get(successResult(v), "output"))

C17_InputMissingRecovered ==
  lkMessage \in NoTextMessages =>
    /\ lkReply.kind # "none" =>
         lkReply.kind = "return" /\ successResult(lkReply.v) # Null /\ ~Has(lkReply.v, "error")
    /\ lkResp # <<>> =>
         lkResp[1].status = 200 /\ successResult(lkResp[1].body) # Null /\ ~Has(lkResp[1].body, "error")

\* one of the known flags of the parsed body marks the domain registered
positiveFlag(json) ==
  \/ Get(json, "registered") = Bool(TRUE)
  \/ Get(json, "is_registered") = Bool(TRUE)
  \/ Get(json, "domainStatus") = Str("registered")

\* the registered field of the lookup's structured data
registeredField == Get(Get(lkTool.v, "data"), "registered")

\* C18: the lookup marks the domain registered iff the parsed response sets
\* one of the known flags; the test for "registered" in the raw text decides
\* only when the body is not valid structured data, so a valid structured
\* body without a positive flag resolves to not registered.
C18_SubstringOnlyForUnstructured ==
  (LookupSettled /\ lkFetch.kind = "response") =>
    IF lkFetch.body.valid
    THEN registeredField = Bool(positiveFlag(lkFetch.body.json))
    ELSE registeredField = Bool(testRegistered(lkFetch.body.raw))

\* response bodies in plain text that contain "registered", in capitals and
\* capitalised
RegisteredTextBodies == {TextBody(RegisteredUpperText), TextBody(RegisteredMixedText)}

\* C19: for a lookup response whose text contains "registered" in any
\* letter case and carries no structured flags, registered resolves to true.
C19_RegisteredHeuristic ==
  (LookupSettled /\ lkFetch.kind = "response" /\ lkFetch.body \in RegisteredTextBodies) =>
    /\ registeredField = Bool(TRUE)
    /\ Get(Get(lkTool.v, "output"), "text")
         = Str("Domain " \o lkDomain.s \o " appears to be registered.")

\* C19 witness: the provider answered "Domain is REGISTERED"
C19_Witness ==
  /\ LookupSettled
  /\ lkFetch = WhoisResponse(TRUE, TextBody(RegisteredUpperText))
  /\ registeredField = Bool(TRUE)

ScenarioText == Str("Domain example.com appears to be registered. Expires: 2025-01-01. Registrar: ACME.")

\* exactly one JSON artifact and one text artifact, the text artifact
\* carrying the text
oneJsonOneText(artifacts, text) ==
  /\ artifacts.t = "array"
  /\ Len(artifacts.a) = 2
  /\ \E i, j \in 1 .. 2 :
       /\ i # j
       /\ Get(artifacts.a[i], "type") = Str("application/json")
       /\ artifacts.a[j] = TextArtifact(text)

\* C20: end to end, for the input text "Check domain example.com" and a
\* lookup result with registered true, registrar "ACME" and expires
\* "2025-01-01", the envelope returned to the caller has the canonical text
\* "Domain example.com appears to be registered. Expires: 2025-01-01.
\* Registrar: ACME." and exactly one JSON artifact and one text artifact
\* carrying that text.
C20_ScenarioEndToEnd ==
  \A r \in Reqs :
    ( /\ IsSync(r)
      /\ agentIn[r] = Str("Check domain example.com")
      /\ agentOut[r] = whoisTool_execute(ExampleDomain, WhoisResponse(TRUE, AcmeBody))
      /\ resp[r] # <<>> ) =>
        LET output == Get(Get(resp[r][1].body, "result"), "output") IN
          /\ resp[r][1].status = 200
          /\ Get(output, "text") = ScenarioText
          /\ oneJsonOneText(Get(output, "artifacts"), ScenarioText)

\* the domain the lookup is expected to be called with, "" for none, for
\* the messages of several parts
FirstTextDomain ==
  { [message |-> MessageOf(<<TextPart(CheckExampleText), TextPart(HelloThereText)>>),
     domain |-> "example.com"],
    [message |-> MessageOf(<<TextPart(HelloThereText), TextPart(CheckExampleText)>>),
     domain |-> ""],
    [message |-> MessageOf(<<TextPart(BlankText), FilePart, TextPart(TwoDomainsText),
                             TextPart(CheckExampleText)>>),
     domain |-> "foo.io"],
    [message |-> MessageOf(<<Obj([kind |-> Str("data"),
                                  data |-> Arr(<<FilePart, TextPart(CheckExampleText)>>)]),
                             TextPart(TwoDomainsText)>>),
     domain |-> "example.com"] }

\* the handler is past the extraction of the domain
Extracted == lkPc \in {"whois", "lookedup", "respond", "done"}

FirstMatchOf ==
  { [text |-> TwoDomainsText, domain |-> "foo.io"],
    [text |-> HtmlUrlText, domain |-> "example.com"],
    [text |-> SubdomainText, domain |-> "sub.foo.co.uk"],
    [text |-> UnderscoreText, domain |-> "good.org"] }

\* c is of the shape of a domain, in lower case: labels of 1-63 letters,
\* digits or hyphens separated by dots, the last of 2-63 letters
IsDomainShape(c) ==
  LET dots == {i \in DOMAIN c : c[i] = "."}
      marks == dots \cup {0, Len(c) + 1}
      lastDot == CHOOSE i \in dots : \A j \in dots : j <= i
  IN /\ dots # {}
     /\ \A i \in DOMAIN c : c[i] = "." \/ (isLabelChar(c[i]) /\ ~isUpper(c[i]))
     /\ \A a \in marks : \A b \in marks :
          (a < b /\ \A m \in marks : ~(a < m /\ m < b)) => (b - a - 1 >= 1 /\ b - a - 1 <= 63)
     /\ Len(c) - lastDot >= 2
     /\ \A i \in lastDot + 1 .. Len(c) : isLower(c[i])

\* C22: of several domain-like substrings of the text, extractDomainFromText
\* returns the first match from the left, in lower case, found after HTML-like
\* tags, http:// and https:// and www. were stripped; whatever it returns is
\* of the shape of a domain.
C22_FirstMatchLowercased ==
  /\ \A k \in FirstMatchOf :
       (lkMessage = MessageOf(<<TextPart(k.text)>>) /\ Extracted) =>
          lkDomain # Null /\ lkDomain.s = k.domain /\ lkCalls = <<k.domain>>
  /\ lkDomain # Null => IsDomainShape(lkDomain.c)

\* C22 witness: of "see <b>Sub.Foo.CO.uk</b> and http://bar.dev" the lookup
\* was called with sub.foo.co.uk
C22_Witness ==
  /\ lkMessage = MessageOf(<<TextPart(SubdomainText)>>)
  /\ lkCalls = <<"sub.foo.co.uk">>
  /\ lkPc = "done"

\* the body b, written for request r, carries the identifier of r
OwnIdentifier(b, r) ==
  IF Has(b, "id") THEN Get(b, "id") = idOf(body[r]) ELSE idOf(body[r]) = Null

\* what was written for request r follows from the request body of r and
\* the outcome of its own agent call
OwnResultOnly(r) ==
  /\ \A i \in 1 .. Len(resp[r]) :
       \/ resp[r][i] = ackResponse(body[r])
       \/ agentOut[r].kind # "none"
            /\ resp[r][i] = syncResponse(idOf(body[r]), handleDomainMessage(agentOut[r]))
  /\ \A i \in 1 .. Len(posts[r]) :
       /\ agentOut[r].kind # "none"
       /\ posts[r][i] = pushRequest(pushUrlOf(body[r]),
                                    pushPayload(idOf(body[r]), handleDomainMessage(agentOut[r])),
                                    pushTokenOf(body[r]))

AlreadyEnvelope(v) == IsResultEnvelope(v) \/ Has(v, "result") \/ Has(v, "error")

\* the agent of request r returned a value with an output field that is not
\* already an envelope
ReturnedOutput(r) ==
  /\ agentOut[r].kind = "return"
  /\ ~AlreadyEnvelope(agentOut[r].v)
  /\ Truthy(Get(agentOut[r].v, "output"))

\* C24: when the result of the agent or of the lookup is not already an
\* envelope and has an output field, handleDomainMessage returns
\* { ok: true, output: <that output> }; so a lookup result { status, data,
\* output: { text, artifacts } } reaches the caller, in the response or in
\* the push POST, with result.output equal to the lookup's output.
C24_OutputIsWrapped ==
  \A r \in Reqs :
    ReturnedOutput(r) =>
      /\ Replied(r) => agentReply[r] = Return(ResultOk(Get(agentOut[r].v, "output")))
      /\ (IsSync(r) /\ resp[r] # <<>>) =>
           Get(Get(resp[r][1].body, "result"), "output") = Get(agentOut[r].v, "output")
      /\ \A i \in 1 .. Len(posts[r]) :
           Get(Get(posts[r][i].body, "result"), "output") = Get(agentOut[r].v, "output")

\* the string of the scalar text field of v: output_text, else text
scalarText(v) == IF Truthy(Get(v, "output_text")) THEN Get(v, "output_text") ELSE Get(v, "text")

\* C25: the normalizer applies the first matching rule in the stated order:
\* a result with both output and text is wrapped with its output; a result
\* with a scalar text or output_text and a data field yields that string as
\* text with one text artifact carrying it, not the JSON of data; a result
\* with only data yields the pretty-printed JSON of data as text with a
\* single JSON artifact wrapping data.
C25_FirstMatchingRule ==
  \A r \in Reqs :
    (Replied(r) /\ agentOut[r].kind = "return" /\ agentOut[r].v.t = "object"
       /\ ~AlreadyEnvelope(agentOut[r].v)) =>
      LET v == agentOut[r].v IN
        /\ (Truthy(Get(v, "output")) /\ Truthy(scalarText(v)))
             => agentReply[r] = Return(ResultOk(Get(v, "output")))
        /\ (~Has(v, "output") /\ Truthy(scalarText(v)) /\ Truthy(Get(v, "data")))
             => agentReply[r] = Return(ResultOk(Obj([text |-> scalarText(v),
                                                     artifacts |-> Arr(<<TextArtifact(scalarText(v))>>)])))
        /\ (~Has(v, "output") /\ ~Truthy(scalarText(v)) /\ Truthy(Get(v, "data")))
             => agentReply[r] = Return(ResultOk(Obj([text |-> JSONstringify(Get(v, "data")),
                                                     artifacts |-> Arr(<<JsonArtifact(Get(v, "data"))>>)])))

\* the thrown value as a string: the message of an error, the string of
\* anything else
thrownMessage(e) == IF Has(e, "message") THEN String(e.f.message) ELSE String(e)

\* the error envelope for the thrown value e, with the given where
errorEnvelope(e, where) ==
  Obj([error |-> Obj([code |-> Num(-32000), message |-> thrownMessage(e),
                      data |-> Obj([where |-> Str(where)])])])

\* C26 as stated: whenever the agent call (or a normalization step) throws,
\* handleDomainMessage returns an error envelope with code -32000, the
\* stringified error as message and data { where: "normalize" }.
C26_ErrorWhereNormalize ==
  \A r \in Reqs :
    (Replied(r) /\ agentOut[r].kind = "throw") =>
      agentReply[r] = Return(errorEnvelope(agentOut[r].v, "normalize"))

\* C26 amended: whenever the agent call (or a normalization step) throws,
\* handleDomainMessage returns an error envelope with code -32000, the
\* stringified error as message and data { where: "handleDomainMessage" }.
C26_ErrorWhereHandler ==
  \A r \in Reqs :
    (Replied(r) /\ agentOut[r].kind = "throw") =>
      agentReply[r] = Return(errorEnvelope(agentOut[r].v, "handleDomainMessage"))

\* C26 witness: the agent threw an error with a message and the handler
\* returned its envelope
C26_Witness ==
  \E r \in Reqs :
    /\ agentOut[r] = Throw(Obj([message |-> Str("agent failed")]))
    /\ Replied(r)
    /\ Get(Get(agentReply[r].v, "error"), "message") = Str("agent failed")

\* the domain the lookup was called with: the plain string or the domain
\* field of the object
inputDomain(args) == IF args[1].t = "string" THEN args[1].c ELSE Get(args[1], "domain").c

\* C27: the domain of every lookup record, and the domain sent to the WHOIS
\* provider, is the input domain lowercased and trimmed, for a plain string
\* and for an object with a domain field.
C27_DomainLowercasedTrimmed ==
  tlSent # Null =>
    /\ tlSent.c = toLowerCase(trim(inputDomain(tlArgs)))
    /\ (tlResult.kind = "return" /\ Has(tlResult.v, "data")) =>
         Get(Get(tlResult.v, "data"), "domain") = Str(Join(toLowerCase(trim(inputDomain(tlArgs)))))

\* C28: sync and push delivery are equivalent in content: the JSON body
\* POSTed to the push URL equals the body the sync branch returns for the
\* same request identifier and the same reply of handleDomainMessage, and
\* a sync and a push request with the same identifier and the same reply
\* got the same body.
C28_SyncPushSameBody ==
  /\ \A r \in Reqs :
       \A i \in 1 .. Len(posts[r]) :
         posts[r][i].body = syncResponse(idOf(body[r]), agentReply[r]).body
  /\ \A r1, r2 \in Reqs :
       ( /\ IsSync(r1) /\ IsPush(r2)
         /\ idOf(body[r1]) = idOf(body[r2])
         /\ agentReply[r1] = agentReply[r2]
         /\ resp[r1] # <<>> /\ posts[r2] # <<>> )
       => resp[r1][1].body = posts[r2][1].body

\* C28 witness: a push request whose agent call threw was posted the error
\* envelope the sync branch returns
C28_Witness ==
  \E r \in Reqs :
    /\ IsPush(r)
    /\ agentOut[r].kind = "throw"
    /\ posts[r] # <<>>
    /\ Has(posts[r][1].body, "error")
    /\ posts[r][1].body = syncResponse(idOf(body[r]), agentReply[r]).body

\* the Authorization header that carries the token
bearerOf(token) == IF Truthy(token) THEN Str("Bearer " \o token.s) ELSE Null

\* C29: the bearer token of a push POST comes from the same place as the
\* URL it is sent to: a token of configuration.pushNotificationConfig is
\* never sent to a URL taken from params, and a token given in params never
\* to a URL taken from the configuration.
C29_TokenFollowsUrl ==
  \A r \in Reqs :
    \A i \in 1 .. Len(posts[r]) :
      /\ ~ /\ posts[r][i].url = pushUrlFromParams(body[r])
            /\ posts[r][i].authorization = bearerOf(pushTokenFromConfig(body[r]))
      /\ ~ /\ posts[r][i].url = pushUrlFromConfig(body[r])
            /\ posts[r][i].authorization = bearerOf(pushTokenFromParams(body[r]))

\* the terminal events among those received
terminalEvents == {i \in DOMAIN stEvents : stEvents[i].type \in {"end", "error"}}

\* the first of them
firstTerminal == CHOOSE i \in terminalEvents : \A j \in terminalEvents : i <= j

\* the chunks of the 'message' events among the first n events, one after
\* the other
RECURSIVE chunksBefore(_)
chunksBefore(n) ==
  IF n = 0 THEN <<>>
  ELSE chunksBefore(n - 1) \o
         (IF stEvents[n].type # "message" THEN <<>>
          ELSE IF chunkOf(stEvents[n].v).t = "string" THEN chunkOf(stEvents[n].v).c
          ELSE <<"[", "o", "b", "j", "e", "c", "t", " ", "O", "b", "j", "e", "c", "t", "]">>)

\* what the first terminal event fixes the outcome to
outcomeOfFirstTerminal ==
  IF stEvents[firstTerminal].type = "error" THEN FailureReply
  ELSE IF trim(chunksBefore(firstTerminal - 1)) = <<>>
    THEN Obj([reply |-> Str("Domain lookup completed.")])
  ELSE Obj([reply |-> Txt(trim(chunksBefore(firstTerminal - 1)))])

\* C30: the streaming handleDomainMessage never rejects, and its outcome is
\* fixed by the first terminal event: after 'end' the reply is the trimmed
\* concatenation, in arrival order, of the chunks of the 'message' events
\* received before it, or "Domain lookup completed." when that is empty;
\* after 'error', or without a valid stream, the reply is "Something went
\* wrong with the domain checker."; later events change nothing.
C30_FirstTerminalEventDecides ==
  /\ stOutcome.kind # "throw"
  /\ stOutcome.kind = "return" =>
       IF stStream = Return(ValidStream)
       THEN terminalEvents # {} /\ stOutcome.v = outcomeOfFirstTerminal
       ELSE stOutcome.v = FailureReply /\ stEvents = <<>>
  /\ (stPc = "listening" /\ terminalEvents = {}) => stPromise.kind = "none"

\* C30 witness: 'end' came after a chunk and an 'error' after it, and the
\* handler returned the trimmed text of the chunk
C30_Witness ==
  /\ Len(stEvents) = 3
  /\ stEvents[1].type = "message"
  /\ stEvents[2].type = "end"
  /\ stEvents[3].type = "error"
  /\ stOutcome.kind = "return"
  /\ Get(stOutcome.v, "reply").s = "foo.io"

====
